---- MODULE Spec2Model ----
(***************************************************************************)
(* Model of spim_core/devices/tiger_components.py: the axis-frame mapping  *)
(* of Pose (construction, _sanitize_axis_map, _remap) and the operations   *)
(* SamplePose and CameraPose build on it, over a TigerController.          *)
(*                                                                         *)
(* A Python str is a sequence of one-character strings, so that lower(),   *)
(* upper(), startswith("-") and lstrip("-") are computed, not assumed.     *)
(* A Python dict is a sequence of <<key, value>> pairs with distinct keys, *)
(* in insertion order; assigning to a key that is present replaces the     *)
(* value in place.                                                         *)
(***************************************************************************)
EXTENDS Integers, Sequences, FiniteSets, TLC

VARIABLES
    pc,                         \* where the wrapper is: "new", "idle", "polling"
    kind,                       \* the class of the wrapper: "SamplePose", "CameraPose"
    axis_map,                   \* the axis_map argument of the constructor
    sample_to_tiger_axis_map,   \* Pose.sample_to_tiger_axis_map
    tiger_to_sample_axis_map,   \* Pose.tiger_to_sample_axis_map
    axes,                       \* Pose.axes
    tiger_joystick_mapping,     \* Pose.tiger_joystick_mapping
    vector,                     \* the position vector the caller holds
    call,                       \* the wrapper call in progress or last finished
    tigerbox                    \* the state of the TigerController

vars == <<pc, kind, axis_map, sample_to_tiger_axis_map,
          tiger_to_sample_axis_map, axes, tiger_joystick_mapping, vector, call,
          tigerbox>>

(***************************************************************************)
(* Bounds of the model.                                                    *)
(***************************************************************************)
\* the largest number of entries of an axis map passed to the constructor
MaxMapLen == 2
\* the largest number of entries of a position vector passed to _remap
MaxVecLen == 2
\* the farthest from 0 a relative move is let to send an axis
MaxPos == 2

(***************************************************************************)
(* str                                                                     *)
(***************************************************************************)
LowerChar(c) ==
    CASE c = "X" -> "x" [] c = "Y" -> "y" [] c = "Z" -> "z"
      [] c = "C" -> "c" [] c = "N" -> "n" [] c = "Q" -> "q"
      [] OTHER -> c

UpperChar(c) ==
    CASE c = "x" -> "X" [] c = "y" -> "Y" [] c = "z" -> "Z"
      [] c = "c" -> "C" [] c = "n" -> "N" [] c = "q" -> "Q"
      [] OTHER -> c

\* str.lower()
Lower(s) == [i \in 1..Len(s) |-> LowerChar(s[i])]

\* str.upper()
Upper(s) == [i \in 1..Len(s) |-> UpperChar(s[i])]

\* str.startswith("-")
StartsWithMinus(s) == Len(s) > 0 /\ s[1] = "-"

\* str.lstrip("-"): every leading "-" is removed
RECURSIVE LStripMinus(_)
LStripMinus(s) == IF StartsWithMinus(s) THEN LStripMinus(Tail(s)) ELSE s

(***************************************************************************)
(* dict                                                                    *)
(***************************************************************************)
EmptyDict == << >>

DictKeys(d) == {d[i][1] : i \in 1..Len(d)}

DictHas(d, k) == \E i \in 1..Len(d) : d[i][1] = k

\* d[k], for a key that is present
DictAt(d, k) == d[CHOOSE i \in 1..Len(d) : d[i][1] = k][2]

\* d.get(k, default)
DictGet(d, k, default) == IF DictHas(d, k) THEN DictAt(d, k) ELSE default

\* d[k] = v
DictPut(d, k, v) ==
    IF DictHas(d, k)
    THEN [i \in 1..Len(d) |-> IF d[i][1] = k THEN <<k, v>> ELSE d[i]]
    ELSE Append(d, <<k, v>>)

\* d1 == d2 of Python: the same keys with the same values, in any order
DictEq(d1, d2) ==
    /\ DictKeys(d1) = DictKeys(d2)
    /\ \A k \in DictKeys(d1) : DictAt(d1, k) = DictAt(d2, k)

\* the roles of key and value left as they are
ZipValuesKeys_NotSwapped(d) == d

\* dict(zip(d.values(), d.keys()))
RECURSIVE ZipValuesKeys(_)
ZipValuesKeys(d) ==
    IF d = << >> THEN EmptyDict
    ELSE LET e == d[Len(d)] IN
         DictPut(ZipValuesKeys(SubSeq(d, 1, Len(d) - 1)), e[2], e[1])

(***************************************************************************)
(* Pose._sanitize_axis_map                                                 *)
(***************************************************************************)
\* a sign taken from the machine name alone, a "-" on the logical name ignored
SignPrefix_ValueOnly(axis, t_axis) ==
    IF StartsWithMinus(t_axis) THEN <<"-">> ELSE << >>

\* the "-" the sanitized value starts with, or nothing: the XOR of
\* startswith("-") of the two lower-cased names
SignPrefix(axis, t_axis) ==
    IF StartsWithMinus(axis) # StartsWithMinus(t_axis) THEN <<"-">> ELSE << >>

\* one pass of the loop body over the entry e, on the dict built so far
SanitizeStep(sanitized, e) ==
    LET axis == Lower(e[1])
        t_axis == Lower(e[2])
    IN DictPut(sanitized, LStripMinus(axis),
               SignPrefix(axis, t_axis) \o LStripMinus(t_axis))

RECURSIVE SanitizeAxisMap(_)
SanitizeAxisMap(m) ==
    IF m = << >> THEN EmptyDict
    ELSE SanitizeStep(SanitizeAxisMap(SubSeq(m, 1, Len(m) - 1)), m[Len(m)])

(***************************************************************************)
(* Pose._remap, _sample_to_tiger, _tiger_to_sample                         *)
(***************************************************************************)
\* the value copied without the sign of the mapping
RemapStep_NoSign(new_axes, e, mapping) ==
    LET axis == Lower(e[1])
        new_axis == DictGet(mapping, axis, axis)
    IN DictPut(new_axes, LStripMinus(new_axis), e[2])

\* an axis without an entry in the mapping left out of the result
RemapStep_DropUnmapped(new_axes, e, mapping) ==
    LET axis == Lower(e[1])
        new_axis == DictGet(mapping, axis, axis)
        negative == IF StartsWithMinus(new_axis) THEN -1 ELSE 1
    IN IF DictHas(mapping, axis)
       THEN DictPut(new_axes, LStripMinus(new_axis), negative * e[2])
       ELSE new_axes

\* the "-" of the table value kept in the output key
RemapStep_KeepSignedKey(new_axes, e, mapping) ==
    LET axis == Lower(e[1])
        new_axis == DictGet(mapping, axis, axis)
        negative == IF StartsWithMinus(new_axis) THEN -1 ELSE 1
    IN DictPut(new_axes, new_axis, negative * e[2])

\* one pass of the loop body over the entry e = <<axis, value>>
RemapStep(new_axes, e, mapping) ==
    LET axis == Lower(e[1])
        new_axis == DictGet(mapping, axis, axis)
        negative == IF StartsWithMinus(new_axis) THEN -1 ELSE 1
    IN DictPut(new_axes, LStripMinus(new_axis), negative * e[2])

RECURSIVE Remap(_, _)
Remap(v, mapping) ==
    IF v = << >> THEN EmptyDict
    ELSE RemapStep(Remap(SubSeq(v, 1, Len(v) - 1), mapping), v[Len(v)], mapping)

(***************************************************************************)
(* Pose.__init__                                                           *)
(***************************************************************************)
\* the axis_map argument: None, or a dict {sample frame axis: machine frame axis}
NoAxisMap == [given |-> FALSE, items |-> EmptyDict]

SomeAxisMap(m) == [given |-> TRUE, items |-> m]

\* self.axes = [x.upper() for x in axis_map.values()]
AxesOf(m) == [i \in 1..Len(m) |-> Upper(m[i][2])]

\* a constructor that rejects an axis map naming a machine axis twice
PoseFields_Validating(arg) ==
    LET m == arg.items
        dup == \E i, j \in 1..Len(m) :
                  i # j /\ LStripMinus(Lower(m[i][2])) = LStripMinus(Lower(m[j][2]))
    IN [raised |-> IF arg.given /\ dup THEN "ConfigurationError" ELSE "none",
        sample_to_tiger_axis_map |-> SanitizeAxisMap(m),
        tiger_to_sample_axis_map |-> SanitizeAxisMap(ZipValuesKeys(m)),
        axes |-> AxesOf(m)]

\* the fields __init__ leaves in the object; __init__ has no raise statement
\* and validates nothing, so every argument yields an object
PoseFields(arg) ==
    IF arg.given
    THEN [raised |-> "none",
          sample_to_tiger_axis_map |-> SanitizeAxisMap(arg.items),
          tiger_to_sample_axis_map |-> SanitizeAxisMap(ZipValuesKeys(arg.items)),
          axes |-> AxesOf(arg.items)]
    ELSE [raised |-> "none",
          sample_to_tiger_axis_map |-> EmptyDict,
          tiger_to_sample_axis_map |-> EmptyDict,
          axes |-> << >>]

\* the dicts of at most n entries with keys in K and values in V
DictsOver(K, V, n) ==
    UNION { {d \in [1..k -> K \X V] :
                \A i, j \in 1..k : d[i][1] = d[j][1] => i = j} : k \in 0..n }

\* axis names as a configuration may write them: an optional "-" and a letter
\* in either case
ConfigSigns == { << >>, <<"-">> }

ConfigLetters == {"x", "y", "X"}

ConfigNames == {s \o <<c>> : s \in ConfigSigns, c \in ConfigLetters}

ConfigAxisMaps == DictsOver(ConfigNames, ConfigNames, MaxMapLen)

(***************************************************************************)
(* The TigerController behind the wrapper: per axis a position, the target *)
(* of the last move and the travel limits; whether an axis is in motion;   *)
(* and the calls the wrapper has made on it during the current call.       *)
(***************************************************************************)
TigerAxes == { <<"X">>, <<"Y">>, <<"Z">>, <<"N">> }

\* the binding of the joystick inputs to the axes that
\* enable_joystick_inputs installs
JoystickDefault ==
    [a \in TigerAxes |->
        CASE a = <<"X">> -> "JOYSTICK_X" [] a = <<"Y">> -> "JOYSTICK_Y"
          [] a = <<"Z">> -> "Z_WHEEL" [] OTHER -> "F_WHEEL"]

\* the controller before any command: every axis at rest at position 0
TigerIdle ==
    [pos |-> [a \in TigerAxes |-> 0],
     target |-> [a \in TigerAxes |-> 0],
     lower |-> [a \in TigerAxes |-> -50],
     upper |-> [a \in TigerAxes |-> 50],
     moving |-> FALSE,
     joystick |-> JoystickDefault,
     log |-> << >>]

\* the controller knows an axis by its upper-cased name, and refuses a call
\* that names anything else
TigerKnows(names) == \A n \in names : Upper(n) \in TigerAxes

\* the transport of the controller fails on the command named: the call
\* raises and the controller does nothing
TigerFails(tb, name) == "fault" \in DOMAIN tb /\ tb.fault = name

\* the value a move gives for controller axis a, as a set (empty: not named)
MoveValueFor(moves, a) == {moves[i][2] : i \in {j \in 1..Len(moves) : Upper(moves[j][1]) = a}}

TheOne(S) == CHOOSE x \in S : TRUE

\* tigerbox.move_absolute(**moves, wait=w) and tigerbox.move_relative(...):
\* the call is recorded; a call the controller accepts sets the targets and
\* starts the motion
TigerMove(tb, cmd, moves, w) ==
    LET logged == [tb EXCEPT !.log = Append(@, [cmd |-> cmd, axes |-> moves, wait |-> w])]
    IN IF ~TigerKnows(DictKeys(moves)) \/ TigerFails(tb, cmd) THEN logged
       ELSE [logged EXCEPT
               !.target = [a \in TigerAxes |->
                             IF MoveValueFor(moves, a) = {} THEN tb.target[a]
                             ELSE IF cmd = "move_absolute"
                                  THEN TheOne(MoveValueFor(moves, a))
                                  ELSE tb.target[a] + TheOne(MoveValueFor(moves, a))],
               !.moving = (tb.moving \/ moves # << >>)]

\* tigerbox.get_position(*names): the position of each axis under its
\* upper-cased name
RECURSIVE TigerPosition(_, _)
TigerPosition(tb, names) ==
    IF names = << >> THEN EmptyDict
    ELSE LET a == Upper(names[Len(names)]) IN
         DictPut(TigerPosition(tb, SubSeq(names, 1, Len(names) - 1)), a, tb.pos[a])

\* tigerbox.zero_in_place(*names): the current position of each axis becomes 0
TigerZero(tb, names) ==
    LET named == {Upper(names[i]) : i \in 1..Len(names)}
        logged == [tb EXCEPT !.log = Append(@, [cmd |-> "zero_in_place", axes |-> names])]
    IN IF ~TigerKnows(named) \/ TigerFails(tb, "zero_in_place") THEN logged
       ELSE [logged EXCEPT
               !.pos = [a \in TigerAxes |-> IF a \in named THEN 0 ELSE tb.pos[a]],
               !.target = [a \in TigerAxes |-> IF a \in named THEN 0 ELSE tb.target[a]]]

\* the motion the controller was asked for comes to its end
TigerArrive(tb) == [tb EXCEPT !.pos = tb.target, !.moving = FALSE]

\* the axes of the controller that are on their way to their target
InMotion(tb) == {a \in TigerAxes : tb.pos[a] # tb.target[a]}

\* one axis reaches its target; the controller is moving as long as another
\* axis is on its way
TigerArriveAxis(tb, a) ==
    [tb EXCEPT !.pos[a] = tb.target[a], !.moving = (InMotion(tb) \ {a} # {})]

\* Pose(tigerbox, axis_map)
PoseInit(arg) ==
    /\ pc = "new"
    /\ LET f == PoseFields(arg) IN
       /\ axis_map' = arg
       /\ sample_to_tiger_axis_map' = f.sample_to_tiger_axis_map
       /\ tiger_to_sample_axis_map' = f.tiger_to_sample_axis_map
       /\ axes' = f.axes
       /\ tiger_joystick_mapping' = tigerbox.joystick
       /\ call' = [op |-> "__init__", raised |-> f.raised]
       /\ pc' = IF f.raised = "none" THEN "idle" ELSE "failed"
    /\ UNCHANGED <<kind, vector, tigerbox>>

(***************************************************************************)
(* Construction of a Pose from every axis map of the configuration names.  *)
(***************************************************************************)
InitBuild ==
    /\ pc = "new"
    /\ kind = "Pose"
    /\ axis_map = NoAxisMap
    /\ sample_to_tiger_axis_map = EmptyDict
    /\ tiger_to_sample_axis_map = EmptyDict
    /\ axes = << >>
    /\ tiger_joystick_mapping = << >>
    /\ vector = EmptyDict
    /\ call = [op |-> "none", raised |-> "none"]
    /\ tigerbox = TigerIdle

Construct == pc = "new" /\ \E m \in ConfigAxisMaps : PoseInit(SomeAxisMap(m))

ConstructDefault == PoseInit(NoAxisMap)

NextBuild == Construct \/ ConstructDefault

SpecBuild == InitBuild /\ [][NextBuild]_vars

(***************************************************************************)
(* Vocabulary of the claims about construction.                            *)
(***************************************************************************)
\* an axis name without its case and its "-"
Norm(name) == LStripMinus(Lower(name))

\* the sign a table value carries, and the name it carries
IsNegative(t) == StartsWithMinus(t)

Unsigned(t) == LStripMinus(t)

HasMinus(name) == \E i \in 1..Len(name) : name[i] = "-"

Built == call.op = "__init__" /\ axis_map.given

Entries == 1..Len(axis_map.items)

EntryKey(i) == axis_map.items[i][1]

EntryVal(i) == axis_map.items[i][2]

\* the normalized logical (machine) names of the input are pairwise distinct
DistinctLogical == \A i, j \in Entries : Norm(EntryKey(i)) = Norm(EntryKey(j)) => i = j

DistinctMachine == \A i, j \in Entries : Norm(EntryVal(i)) = Norm(EntryVal(j)) => i = j

\* entry i is the one the forward table keeps for its logical axis
LastForLogical(i) == \A j \in Entries : Norm(EntryKey(j)) = Norm(EntryKey(i)) => j <= i

\* the XOR of the "-" of the two names of entry i
EntryXor(i) == StartsWithMinus(EntryKey(i)) # StartsWithMinus(EntryVal(i))

\* the stored names carry no "-" but the one sign in front of a table value
TablesUnsigned ==
    /\ \A k \in DictKeys(sample_to_tiger_axis_map) :
          ~HasMinus(k) /\ ~HasMinus(Unsigned(DictAt(sample_to_tiger_axis_map, k)))
                       /\ Len(DictAt(sample_to_tiger_axis_map, k))
                            <= Len(Unsigned(DictAt(sample_to_tiger_axis_map, k))) + 1
    /\ \A k \in DictKeys(tiger_to_sample_axis_map) :
          ~HasMinus(k) /\ ~HasMinus(Unsigned(DictAt(tiger_to_sample_axis_map, k)))
                       /\ Len(DictAt(tiger_to_sample_axis_map, k))
                            <= Len(Unsigned(DictAt(tiger_to_sample_axis_map, k))) + 1

\* {"-x": "-y"} is a net positive mapping: Forward({x: 5}) == {y: 5}
DoubleMinusExample ==
    axis_map.items = << << <<"-", "x">>, <<"-", "y">> >> >>
        => Remap(<< << <<"x">>, 5 >> >>, sample_to_tiger_axis_map)
             = << << <<"y">>, 5 >> >>

\* the sign of the axis of entry i in the forward table is the XOR of entry i
SignIsXor(i) ==
    /\ DictHas(sample_to_tiger_axis_map, Norm(EntryKey(i)))
    /\ IsNegative(DictAt(sample_to_tiger_axis_map, Norm(EntryKey(i)))) = EntryXor(i)

DuplicateTarget == \E i, j \in Entries : i # j /\ Norm(EntryVal(i)) = Norm(EntryVal(j))

\* C7 as stated: construction fails with ConfigurationError when two logical
\* axes name the same machine axis; no wrapper with a non-bijective mapping
\* is ever produced.
C7_RejectsNonBijective ==
    (Built /\ DuplicateTarget) => (call.raised = "ConfigurationError" /\ pc # "idle")

\* C7 amended: construction validates nothing and never fails; from a map in
\* which two entries name the same machine axis it produces a wrapper whose
\* inverse table holds, for that machine axis, a single entry naming one of the
\* logical axes that were mapped to it (the others are silently overwritten).
C7_SilentOverwrite ==
    Built =>
        /\ call.raised = "none" /\ pc = "idle"
        /\ \A i \in Entries :
              /\ DictHas(tiger_to_sample_axis_map, Norm(EntryVal(i)))
              /\ \E j \in Entries :
                    /\ Norm(EntryVal(j)) = Norm(EntryVal(i))
                    /\ Unsigned(DictAt(tiger_to_sample_axis_map, Norm(EntryVal(i))))
                         = Norm(EntryKey(j))
        /\ Len(tiger_to_sample_axis_map)
             = Cardinality({Norm(EntryVal(i)) : i \in Entries})

\* a wrapper built from a map with a duplicate target and distinct logical axes
C7_Witness == Built /\ DuplicateTarget /\ DistinctLogical /\ pc = "idle"

\* the forward table has logical -> (machine, sign)
ForwardHas(l, m, neg) ==
    /\ DictHas(sample_to_tiger_axis_map, l)
    /\ Unsigned(DictAt(sample_to_tiger_axis_map, l)) = m
    /\ IsNegative(DictAt(sample_to_tiger_axis_map, l)) = neg

\* the inverse table has machine -> (logical, sign)
InverseHas(m, l, neg) ==
    /\ DictHas(tiger_to_sample_axis_map, m)
    /\ Unsigned(DictAt(tiger_to_sample_axis_map, m)) = l
    /\ IsNegative(DictAt(tiger_to_sample_axis_map, m)) = neg

NormNames == {Norm(n) : n \in ConfigNames}

\* C8: after construction from a map whose normalized logical names are
\* pairwise distinct and whose normalized machine names are pairwise
\* distinct, the forward table has logical -> (machine, sign) if and only if
\* the inverse table has machine -> (logical, sign), with the same sign.
C8_MutuallyInverse ==
    (Built /\ DistinctLogical /\ DistinctMachine) =>
        /\ \A l \in NormNames, m \in NormNames, neg \in BOOLEAN :
              ForwardHas(l, m, neg) <=> InverseHas(m, l, neg)
        /\ Len(sample_to_tiger_axis_map) = Len(axis_map.items)
        /\ Len(tiger_to_sample_axis_map) = Len(axis_map.items)

\* a wrapper built from two entries, one with a "-" on the logical side and an
\* upper-case name, one with a "-" on the machine side
C8_Witness ==
    /\ Built /\ DistinctLogical /\ DistinctMachine
    /\ Len(axis_map.items) = 2
    /\ \E i \in Entries : StartsWithMinus(EntryKey(i)) /\ ~StartsWithMinus(EntryVal(i))
                            /\ EntryKey(i) # Lower(EntryKey(i))
    /\ \E i \in Entries : StartsWithMinus(EntryVal(i)) /\ ~StartsWithMinus(EntryKey(i))

(***************************************************************************)
(* _sample_to_tiger and _tiger_to_sample on a constructed Pose.            *)
(***************************************************************************)
\* the axis maps and the position vectors the remapping is applied to
RemapKeyNames == { <<"x">>, <<"-", "x">>, <<"y">> }

RemapValNames == { <<"x">>, <<"y">>, <<"-", "y">> }

RemapAxisMaps == DictsOver(RemapKeyNames, RemapValNames, MaxMapLen)

VectorNames == { <<"x">>, <<"y">>, <<"X">> }

VectorValues == {-1, 0, 2}

Vectors == DictsOver(VectorNames, VectorValues, MaxVecLen)

\* the state Pose(tigerbox, arg) leaves
Constructed(arg, k) ==
    LET f == PoseFields(arg) IN
    /\ pc = "idle"
    /\ kind = k
    /\ axis_map = arg
    /\ sample_to_tiger_axis_map = f.sample_to_tiger_axis_map
    /\ tiger_to_sample_axis_map = f.tiger_to_sample_axis_map
    /\ axes = f.axes
    /\ tiger_joystick_mapping = TigerIdle.joystick
    /\ call = [op |-> "__init__", raised |-> f.raised]

InitRemap ==
    /\ \E m \in RemapAxisMaps : Constructed(SomeAxisMap(m), "Pose")
    /\ vector \in Vectors
    /\ tigerbox = TigerIdle

\* a _sample_to_tiger that remaps its argument in place
SampleToTiger_InPlace(v) ==
    /\ pc = "idle"
    /\ call' = [op |-> "_sample_to_tiger", raised |-> "none", arg |-> v,
                mapping |-> sample_to_tiger_axis_map,
                ret |-> Remap(v, sample_to_tiger_axis_map),
                chained |-> FALSE, origin |-> v]
    /\ vector' = Remap(v, sample_to_tiger_axis_map)
    /\ UNCHANGED <<pc, kind, axis_map, sample_to_tiger_axis_map,
                   tiger_to_sample_axis_map, axes,
                   tiger_joystick_mapping, tigerbox>>

\* self._sample_to_tiger(v)
SampleToTiger(v) ==
    /\ pc = "idle"
    /\ call' = [op |-> "_sample_to_tiger", raised |-> "none", arg |-> v,
                mapping |-> sample_to_tiger_axis_map,
                ret |-> Remap(v, sample_to_tiger_axis_map),
                chained |-> FALSE, origin |-> v]
    /\ UNCHANGED <<pc, kind, axis_map, sample_to_tiger_axis_map,
                   tiger_to_sample_axis_map, axes,
                   tiger_joystick_mapping, vector, tigerbox>>

\* self._tiger_to_sample(v); origin is the vector v is the forward image of,
\* when v is the result of the preceding _sample_to_tiger
TigerToSample(v, chained, origin) ==
    /\ pc = "idle"
    /\ call' = [op |-> "_tiger_to_sample", raised |-> "none", arg |-> v,
                mapping |-> tiger_to_sample_axis_map,
                ret |-> Remap(v, tiger_to_sample_axis_map),
                chained |-> chained, origin |-> origin]
    /\ UNCHANGED <<pc, kind, axis_map, sample_to_tiger_axis_map,
                   tiger_to_sample_axis_map, axes,
                   tiger_joystick_mapping, vector, tigerbox>>

Forward == SampleToTiger(vector)

Backward == TigerToSample(vector, FALSE, vector)

BackwardOfForward ==
    /\ call.op = "_sample_to_tiger"
    /\ TigerToSample(call.ret, TRUE, call.arg)

NextRemap == Forward \/ Backward \/ BackwardOfForward

SpecRemap == InitRemap /\ [][NextRemap]_vars

(***************************************************************************)
(* Vocabulary of the claims about _remap.                                  *)
(***************************************************************************)
Remapped == call.op \in {"_sample_to_tiger", "_tiger_to_sample"}

ArgEntries == 1..Len(call.arg)

\* the table value _remap selects for entry i of the argument: the entry of
\* the mapping for the lower-cased name, or the lower-cased name itself
TargetOf(i) == DictGet(call.mapping, Lower(call.arg[i][1]), Lower(call.arg[i][1]))

IsMapped(i) == DictHas(call.mapping, Lower(call.arg[i][1]))

SignOf(t) == IF IsNegative(t) THEN -1 ELSE 1

\* no later entry of the argument is remapped to the output name of entry i
NotOverwritten(i) ==
    \A j \in ArgEntries : Unsigned(TargetOf(j)) = Unsigned(TargetOf(i)) => j <= i

\* the output holds the value of entry i, signed, under its target name
OutputHolds(i) ==
    /\ DictHas(call.ret, Unsigned(TargetOf(i)))
    /\ DictAt(call.ret, Unsigned(TargetOf(i))) = SignOf(TargetOf(i)) * call.arg[i][2]

\* the output holds the value of entry i unchanged under its own name
PassedThrough(i) ==
    /\ DictHas(call.ret, Lower(call.arg[i][1]))
    /\ DictAt(call.ret, Lower(call.arg[i][1])) = call.arg[i][2]

\* the argument names each axis once: its names are pairwise distinct without
\* their case
ProperVector(v) ==
    \A i, j \in 1..Len(v) : Lower(v[i][1]) = Lower(v[j][1]) => i = j

\* C4 as stated: in either direction an input axis without an entry in the
\* selected mapping is output under the same axis name with its value
\* unchanged (here already for vectors that name each axis once).
C4_PassThroughAlways ==
    (Remapped /\ ProperVector(call.arg)) =>
        \A i \in ArgEntries : ~IsMapped(i) => PassedThrough(i)

\* C4 amended: an input axis without an entry in the selected mapping is
\* output under the same (lower-cased) axis name with its value unchanged,
\* unless a later entry of the input is remapped to that name, whose value
\* then replaces it.
C4_PassThrough ==
    Remapped =>
        \A i \in ArgEntries : (~IsMapped(i) /\ NotOverwritten(i)) => PassedThrough(i)

\* a remap of a vector with an unmapped axis of non-zero value next to a
\* mapped one
C4_Witness ==
    /\ Remapped
    /\ \E i, j \in ArgEntries :
          /\ ~IsMapped(i) /\ NotOverwritten(i) /\ call.arg[i][2] # 0
          /\ IsMapped(j)

\* C5 as stated: for every input entry, whatever the letter case of its axis
\* name, the output contains the lower-cased, unsigned target name of that
\* axis with value sign * value (here already for vectors that name each
\* axis once).
C5_EveryEntryInOutput ==
    (Remapped /\ ProperVector(call.arg)) => \A i \in ArgEntries : OutputHolds(i)

\* C5 amended: the same for every input entry that no later entry of the
\* input is remapped to the same output name; the output has one entry for
\* each target name, holding sign * value of the last input entry remapped to
\* it, and no other entry.
C5_RemapResult ==
    Remapped =>
        /\ \A i \in ArgEntries : NotOverwritten(i) => OutputHolds(i)
        /\ DictKeys(call.ret) = {Unsigned(TargetOf(i)) : i \in ArgEntries}
        /\ \A k \in DictKeys(call.ret) : k = Lower(k) /\ ~HasMinus(k)

\* a remap of an upper-case axis name through a negative entry
C5_Witness ==
    /\ Remapped
    /\ \E i \in ArgEntries :
          /\ call.arg[i][1] # Lower(call.arg[i][1])
          /\ IsMapped(i) /\ IsNegative(TargetOf(i)) /\ call.arg[i][2] # 0
          /\ NotOverwritten(i)

\* the round trip gives back the vector it started from, axis names compared
\* without their case
RoundTripIsIdentity ==
    /\ \A i \in 1..Len(call.origin) :
          /\ DictHas(call.ret, Lower(call.origin[i][1]))
          /\ DictAt(call.ret, Lower(call.origin[i][1])) = call.origin[i][2]
    /\ DictKeys(call.ret) = {Lower(call.origin[i][1]) : i \in 1..Len(call.origin)}

RoundTripped == call.op = "_tiger_to_sample" /\ call.chained

\* C1 as stated: for any axis map and any position vector v, remapping v
\* Forward and then Backward yields exactly v for every axis (here already
\* for vectors that name each axis once).
C1_RoundTripAlways ==
    (RoundTripped /\ ProperVector(call.origin)) => RoundTripIsIdentity

\* the axis names of the vector are pairwise distinct without their case, and
\* each is a logical axis of the map or is not a machine axis of the map
VectorFitsMap ==
    /\ ProperVector(call.origin)
    /\ \A i \in 1..Len(call.origin) :
          \/ DictHas(sample_to_tiger_axis_map, Lower(call.origin[i][1]))
          \/ ~DictHas(tiger_to_sample_axis_map, Lower(call.origin[i][1]))

\* C1 amended: for an axis map whose normalized logical names are pairwise
\* distinct and whose normalized machine names are pairwise distinct, and a
\* position vector whose axis names are pairwise distinct without their case,
\* each a logical axis of the map or not a machine axis of the map, remapping
\* Forward and then Backward yields the vector (under lower-cased names).
C1_RoundTrip ==
    (RoundTripped /\ DistinctLogical /\ DistinctMachine /\ VectorFitsMap)
        => RoundTripIsIdentity

\* a round trip through a sign-flipped entry, with a second axis in the vector
C1_Witness ==
    /\ RoundTripped /\ DistinctLogical /\ DistinctMachine /\ VectorFitsMap
    /\ Len(call.origin) = 2
    /\ \E i \in 1..Len(call.origin) :
          /\ DictHas(sample_to_tiger_axis_map, Lower(call.origin[i][1]))
          /\ IsNegative(DictAt(sample_to_tiger_axis_map, Lower(call.origin[i][1])))
          /\ call.origin[i][2] # 0

(***************************************************************************)
(* Moves and position reads of SamplePose and CameraPose.                  *)
(***************************************************************************)
\* an argument that may be None: << >> is None, <<v>> is the number v
None == << >>

IsNone(o) == o = << >>

\* the entries of d that hold a number, with the number
Numbers(d) == [i \in 1..Len(d) |-> <<d[i][1], d[i][2][1]>>]

\* what the preceding call was, as the next call remembers it
AfterOf(c) ==
    [op |-> c.op,
     wait |-> IF "wait" \in DOMAIN c THEN c.wait ELSE FALSE,
     zeroed |-> IF "after" \in DOMAIN c
                THEN c.after.op = "zero_in_place" ELSE FALSE]

\* a filter that drops the None arguments only
SampleAxes_NoneOnly(args, table) ==
    SelectSeq(args, LAMBDA e : ~IsNone(e[2]))

\* SamplePose.move_absolute / move_relative: the arguments that are keys of
\* the forward table and are not None
SampleAxes(args, table) ==
    SelectSeq(args, LAMBDA e : DictHas(table, Lower(e[1])) /\ ~IsNone(e[2]))

\* a camera move that leaves out the argument the forward table does not hold
CameraAxes_MappedOnly(args, table) ==
    SelectSeq(args, LAMBDA e : DictHas(table, Lower(e[1])))

\* CameraPose.move_absolute / move_relative: c=c, whatever c is
CameraAxes(args, table) == args

\* a move that sends the axes as the caller named them
MachineAxes_NotRemapped(moves, table) == moves

\* machine_axes = self._sample_to_tiger(axes)
MachineAxes(moves, table) == Remap(moves, table)

\* a move that always tells the controller to wait
WaitFlag_Always(w) == TRUE

\* the wait flag handed to tigerbox.move_*
WaitFlag(w) == w

\* a move that never polls
Polls_Never(w) == FALSE

\* a move that polls whatever the caller asked
Polls_Always(w) == TRUE

\* if wait: (the polling loop is entered)
Polls(w) == w

\* Pose._move_absolute / Pose._move_relative with the keyword arguments moves:
\* formatting a None with :.3f raises TypeError before anything is sent;
\* otherwise the remapped move is sent once, and with wait the call goes on
\* to poll is_moving()
PoseMove(cmd, w, args, moves) ==
    LET fresh == [tigerbox EXCEPT !.log = << >>]
        sent == TigerMove(fresh, cmd, MachineAxes(Numbers(moves), sample_to_tiger_axis_map),
                          WaitFlag(w))
        unformattable == \E i \in 1..Len(moves) : IsNone(moves[i][2])
        refused == ~unformattable
                     /\ ~TigerKnows(DictKeys(MachineAxes(Numbers(moves),
                                                         sample_to_tiger_axis_map)))
        failed == ~unformattable /\ ~refused /\ TigerFails(tigerbox, cmd)
    IN /\ pc = "idle"
       /\ ~unformattable => \A a \in TigerAxes : sent.target[a] \in -MaxPos..MaxPos
       /\ tigerbox' = IF unformattable THEN fresh ELSE sent
       /\ call' = [op |-> cmd,
                   raised |-> IF unformattable THEN "TypeError"
                              ELSE IF refused THEN "AssertionError"
                              ELSE IF failed THEN "HardwareCommunicationError"
                              ELSE "none",
                   args |-> args, wait |-> w, axes |-> moves,
                   is_moving |-> "unasked",
                   returned |-> (unformattable \/ refused \/ failed \/ ~Polls(w)),
                   after |-> AfterOf(call)]
       /\ pc' = IF unformattable \/ refused \/ failed \/ ~Polls(w)
                THEN "idle" ELSE "polling"
       /\ UNCHANGED <<kind, axis_map, sample_to_tiger_axis_map,
                      tiger_to_sample_axis_map, axes,
                   tiger_joystick_mapping, vector>>

\* SamplePose.move_absolute(x, y, z, wait), CameraPose.move_absolute(c, wait)
\* and the two move_relative
Move(cmd, w) ==
    PoseMove(cmd, w, vector,
             IF kind = "SamplePose" THEN SampleAxes(vector, sample_to_tiger_axis_map)
             ELSE CameraAxes(vector, sample_to_tiger_axis_map))

MoveAbsolute == \E w \in BOOLEAN : Move("move_absolute", w)

MoveRelative == \E w \in BOOLEAN : Move("move_relative", w)

\* a polling loop that gives up after one answer
Poll_GivesUp ==
    /\ pc = "polling"
    /\ call' = [call EXCEPT !.is_moving = IF tigerbox.moving THEN "true" ELSE "false",
                            !.returned = TRUE]
    /\ pc' = "idle"
    /\ UNCHANGED <<kind, axis_map, sample_to_tiger_axis_map,
                   tiger_to_sample_axis_map, axes,
                   tiger_joystick_mapping, vector, tigerbox>>

\* a polling loop that asks about the axes of this wrapper only
Poll_OwnAxes ==
    LET own == InMotion(tigerbox) \cap {axes[i] : i \in 1..Len(axes)} IN
    /\ pc = "polling"
    /\ call' = [call EXCEPT !.is_moving = IF own # {} THEN "true" ELSE "false",
                            !.returned = (own = {})]
    /\ pc' = IF own # {} THEN "polling" ELSE "idle"
    /\ UNCHANGED <<kind, axis_map, sample_to_tiger_axis_map,
                   tiger_to_sample_axis_map, axes, tiger_joystick_mapping, vector,
                   tigerbox>>

\* a polling loop that polls on after is_moving() has raised
Poll_Retries ==
    /\ pc = "polling"
    /\ call' = [call EXCEPT
                  !.is_moving = IF TigerFails(tigerbox, "is_moving") THEN "raised"
                                ELSE IF tigerbox.moving THEN "true" ELSE "false",
                  !.returned = ~tigerbox.moving /\ ~TigerFails(tigerbox, "is_moving")]
    /\ pc' = IF tigerbox.moving \/ TigerFails(tigerbox, "is_moving")
             THEN "polling" ELSE "idle"
    /\ UNCHANGED <<kind, axis_map, sample_to_tiger_axis_map,
                   tiger_to_sample_axis_map, axes, tiger_joystick_mapping, vector,
                   tigerbox>>

\* while self.is_moving(): sleep(0.001)
Poll ==
    /\ pc = "polling"
    /\ call' = IF TigerFails(tigerbox, "is_moving")
                THEN [call EXCEPT !.is_moving = "raised", !.returned = TRUE,
                                  !.raised = "HardwareCommunicationError"]
                ELSE [call EXCEPT
                        !.is_moving = IF tigerbox.moving THEN "true" ELSE "false",
                        !.returned = ~tigerbox.moving]
    /\ pc' = IF tigerbox.moving /\ ~TigerFails(tigerbox, "is_moving")
             THEN "polling" ELSE "idle"
    /\ UNCHANGED <<kind, axis_map, sample_to_tiger_axis_map,
                   tiger_to_sample_axis_map, axes,
                   tiger_joystick_mapping, vector, tigerbox>>

\* the stage reaches the position it was sent to
Arrive ==
    /\ tigerbox.moving
    /\ tigerbox' = TigerArrive(tigerbox)
    /\ UNCHANGED <<pc, kind, axis_map, sample_to_tiger_axis_map,
                   tiger_to_sample_axis_map, axes,
                   tiger_joystick_mapping, vector, call>>

\* Pose.get_position()
GetPosition ==
    LET fresh == [tigerbox EXCEPT !.log = << >>]
        refused == ~TigerKnows({axes[i] : i \in 1..Len(axes)})
        failed == ~refused /\ TigerFails(tigerbox, "get_position")
    IN /\ pc = "idle"
       /\ tigerbox' = [fresh EXCEPT !.log = Append(@, [cmd |-> "get_position", axes |-> axes])]
       /\ call' = [op |-> "get_position",
                   raised |-> IF refused THEN "AssertionError"
                              ELSE IF failed THEN "HardwareCommunicationError"
                              ELSE "none",
                   wait |-> FALSE,
                   ret |-> IF refused \/ failed THEN EmptyDict
                           ELSE Remap(TigerPosition(tigerbox, axes), tiger_to_sample_axis_map),
                   returned |-> TRUE,
                   after |-> AfterOf(call)]
       /\ UNCHANGED <<pc, kind, axis_map, sample_to_tiger_axis_map,
                      tiger_to_sample_axis_map, axes,
                   tiger_joystick_mapping, vector>>

\* Pose.zero_in_place(*names): all the axes of the wrapper when none is named
ZeroInPlace(names) ==
    LET fresh == [tigerbox EXCEPT !.log = << >>]
        named == IF Len(names) = 0 THEN axes ELSE names
    IN /\ pc = "idle"
       /\ tigerbox' = TigerZero(fresh, named)
       /\ call' = [op |-> "zero_in_place",
                   raised |-> IF ~TigerKnows({named[i] : i \in 1..Len(named)})
                              THEN "AssertionError"
                              ELSE IF TigerFails(tigerbox, "zero_in_place")
                              THEN "HardwareCommunicationError"
                              ELSE "none",
                   wait |-> FALSE, args |-> names, returned |-> TRUE,
                   after |-> AfterOf(call)]
       /\ UNCHANGED <<pc, kind, axis_map, sample_to_tiger_axis_map,
                      tiger_to_sample_axis_map, axes,
                   tiger_joystick_mapping, vector>>

ZeroAll == ZeroInPlace(<< >>)

ZeroOne == ZeroInPlace(<< <<"x">> >>)

\* the axis maps of the stages: the letters x, y, z in upper case mapped
\* cyclically (as in the map of tests/sample_pose_mapping.py), at most
\* one entry with a "-", on the machine name or on the sample name, and maps
\* that leave the last axes out
StageLetters == <<"X", "Y", "Z">>

StageMap(shift, negAt, onMachine, n) ==
    [i \in 1..n |->
        << (IF i = negAt /\ ~onMachine THEN <<"-">> ELSE << >>) \o <<StageLetters[i]>>,
           (IF i = negAt /\ onMachine THEN <<"-">> ELSE << >>)
               \o <<StageLetters[((i + shift - 1) % 3) + 1]>> >>]

SampleAxisMaps ==
    {StageMap(shift, negAt, onM, n) :
        shift \in {1}, negAt \in {0, 2}, onM \in BOOLEAN, n \in {1, 3}}

CameraAxisMaps ==
    { << << <<"c">>, <<"N">> >> >>, << << <<"c">>, <<"-", "n">> >> >>,
      << << <<"-", "C">>, <<"N">> >> >> }

ArgValues == {None, <<-1>>, <<2>>}

SampleArgs == { << << <<"x">>, a >>, << <<"y">>, b >>, << <<"z">>, c >> >> :
                    a \in ArgValues, b \in ArgValues, c \in ArgValues }

CameraArgs == { << << <<"c">>, c >> >> : c \in ArgValues }

InitMove ==
    /\ \/ /\ \E arg \in {SomeAxisMap(m) : m \in SampleAxisMaps} \cup {NoAxisMap} :
               Constructed(arg, "SamplePose")
          /\ vector \in SampleArgs
       \/ /\ \E arg \in {SomeAxisMap(m) : m \in CameraAxisMaps} \cup {NoAxisMap} :
               Constructed(arg, "CameraPose")
          /\ vector \in CameraArgs
    /\ tigerbox = TigerIdle

NextMove == MoveAbsolute \/ MoveRelative \/ Poll \/ Arrive \/ GetPosition
              \/ ZeroAll \/ ZeroOne

SpecMove == InitMove /\ [][NextMove]_vars

(***************************************************************************)
(* Vocabulary of the claims about moves and position reads.                *)
(***************************************************************************)
Moved == call.op \in {"move_absolute", "move_relative"}

XYZ == { <<"x">>, <<"y">>, <<"z">> }

\* the axis map is a signed permutation of x, y, z
SignedPermutationXYZ ==
    /\ axis_map.given
    /\ Len(axis_map.items) = 3
    /\ {Norm(EntryKey(i)) : i \in Entries} = XYZ
    /\ {Norm(EntryVal(i)) : i \in Entries} = XYZ

AllGiven(args) == \A i \in 1..Len(args) : ~IsNone(args[i][2])

\* the dict holds, for each argument, the commanded value under its name
EqualsCommanded(d, args) ==
    /\ DictKeys(d) = {args[i][1] : i \in 1..Len(args)}
    /\ \A i \in 1..Len(args) : DictAt(d, args[i][1]) = args[i][2][1]

\* C2: for a SamplePose over a signed permutation of x, y, z, zero_in_place()
\* and move_absolute(x, y, z) with wait go through, and the get_position()
\* that follows them returns a dict keyed exactly by x, y, z whose values are
\* the commanded position.
C2_MoveThenRead ==
    (kind = "SamplePose" /\ SignedPermutationXYZ /\ AllGiven(vector)) =>
        /\ (call.op = "zero_in_place" /\ call.args = << >>) => call.raised = "none"
        /\ (call.op = "move_absolute" /\ call.wait /\ call.after.op = "zero_in_place")
              => call.raised = "none"
        /\ (call.op = "get_position" /\ call.after.op = "move_absolute"
              /\ call.after.wait /\ call.after.zeroed)
              => (call.raised = "none" /\ EqualsCommanded(call.ret, vector))

\* the machine axes named to the controller by the move of this call
Commanded == IF tigerbox.log = << >> THEN {} ELSE DictKeys(tigerbox.log[1].axes)

\* the machine axis the forward table gives for the argument name a
ForwardAxis(a) ==
    Unsigned(DictGet(sample_to_tiger_axis_map, Lower(a), Lower(a)))

Requested == Numbers(call.axes)

\* C10: each call of _move_absolute (_move_relative) with numeric values
\* submits exactly one absolute (relative) move command to the controller;
\* its axis/value pairs are the Forward remap of the requested logical axes
\* (machine axis name, sign * value) and its wait flag is the caller's; the
\* two differ only in the command.
C10_MoveTranslation ==
    (Moved /\ call.raised # "TypeError") =>
        /\ Len(tigerbox.log) = 1
        /\ tigerbox.log[1].cmd = call.op
        /\ tigerbox.log[1].wait = call.wait
        /\ DictEq(tigerbox.log[1].axes, Remap(Requested, sample_to_tiger_axis_map))
        /\ Commanded = {ForwardAxis(Requested[i][1]) : i \in 1..Len(Requested)}
        /\ \A i \in 1..Len(Requested) :
              (\A j \in 1..Len(Requested) :
                   ForwardAxis(Requested[j][1]) = ForwardAxis(Requested[i][1]) => j <= i)
              => DictAt(tigerbox.log[1].axes, ForwardAxis(Requested[i][1]))
                   = SignOf(DictGet(sample_to_tiger_axis_map, Lower(Requested[i][1]),
                                    Lower(Requested[i][1]))) * Requested[i][2]

\* a relative move of three axes, one through a negative entry, not waited for
C10_Witness ==
    /\ call.op = "move_relative" /\ ~call.wait /\ call.returned
    /\ call.raised = "none"
    /\ Len(tigerbox.log) = 1 /\ Len(tigerbox.log[1].axes) = 3
    /\ \E i \in 1..Len(Requested) :
          IsNegative(DictGet(sample_to_tiger_axis_map, Lower(Requested[i][1]),
                             Lower(Requested[i][1])))

(***************************************************************************)
(* Pose.get_travel_limits                                                  *)
(***************************************************************************)
\* tigerbox.get_lower_travel_limit(name) and get_upper_travel_limit(name):
\* a dict with the limit under the upper-cased axis name
TigerLowerLimit(tb, name) == << <<Upper(name), tb.lower[Upper(name)]>> >>

TigerUpperLimit(tb, name) == << <<Upper(name), tb.upper[Upper(name)]>> >>

\* self._sample_to_tiger_axis_list(*names)
SampleToTigerAxisList(names) ==
    LET axes_dict == [i \in 1..Len(names) |-> <<names[i], 0>>]
        tiger_axes_dict == Remap(axes_dict, sample_to_tiger_axis_map)
    IN [i \in 1..Len(tiger_axes_dict) |-> tiger_axes_dict[i][1]]

Sorted_AsGiven(a, b) == <<a, b>>

\* sorted([a, b])
Sorted(a, b) == IF a <= b THEN <<a, b>> ELSE <<b, a>>

\* the body of the loop of get_travel_limits for the axis ax
LimitsOf(ax) ==
    LET tiger_ax == SampleToTigerAxisList(<<ax>>)[1]
        tiger_limit_a == TigerLowerLimit(tigerbox, tiger_ax)
        tiger_limit_b == TigerUpperLimit(tigerbox, tiger_ax)
        sample_limit_a == Remap(tiger_limit_a, tiger_to_sample_axis_map)[1][2]
        sample_limit_b == Remap(tiger_limit_b, tiger_to_sample_axis_map)[1][2]
    IN Sorted(sample_limit_a, sample_limit_b)

RECURSIVE TravelLimits(_)
TravelLimits(names) ==
    IF names = << >> THEN EmptyDict
    ELSE DictPut(TravelLimits(SubSeq(names, 1, Len(names) - 1)),
                 names[Len(names)], LimitsOf(names[Len(names)]))

\* self.get_travel_limits(*names), the names being the keys of vector
GetTravelLimits ==
    /\ pc = "idle"
    /\ LET names == [i \in 1..Len(vector) |-> vector[i][1]]
           known == \A i \in 1..Len(names) :
                       TigerKnows({SampleToTigerAxisList(<<names[i]>>)[1]})
           failed == /\ names # << >>
                     /\ \/ TigerFails(tigerbox, "get_lower_travel_limit")
                        \/ TigerFails(tigerbox, "get_upper_travel_limit")
       IN call' = IF known /\ ~failed
                  THEN [op |-> "get_travel_limits", raised |-> "none",
                        args |-> names, ret |-> TravelLimits(names)]
                  ELSE [op |-> "get_travel_limits",
                        raised |-> IF ~TigerKnows({SampleToTigerAxisList(<<names[1]>>)[1]})
                                      \/ ~failed
                                   THEN "AssertionError"
                                   ELSE "HardwareCommunicationError",
                        args |-> names, ret |-> EmptyDict]
    /\ UNCHANGED <<pc, kind, axis_map, sample_to_tiger_axis_map,
                   tiger_to_sample_axis_map, axes,
                   tiger_joystick_mapping, vector, tigerbox>>

\* (lower, upper) travel limits a controller axis may be set up with
LimitPairs == { <<-50, 50>>, <<-10, 50>>, <<0, 20>>, <<-30, -5>> }

LimitAxisNames == { <<"x">>, <<"y">>, <<"X">>, <<"q">> }

InitLimits ==
    /\ \E m \in RemapAxisMaps : Constructed(SomeAxisMap(m), "Pose")
    /\ vector \in DictsOver(LimitAxisNames, {0}, MaxVecLen)
    /\ \E lx, ly \in LimitPairs :
          tigerbox = [TigerIdle EXCEPT
                        !.lower = [a \in TigerAxes |->
                                     IF a = <<"X">> THEN lx[1]
                                     ELSE IF a = <<"Y">> THEN ly[1] ELSE -50],
                        !.upper = [a \in TigerAxes |->
                                     IF a = <<"X">> THEN lx[2]
                                     ELSE IF a = <<"Y">> THEN ly[2] ELSE 50]]

NextLimits == GetTravelLimits

SpecLimits == InitLimits /\ [][NextLimits]_vars

(***************************************************************************)
(* Vocabulary of the claim about travel limits.                            *)
(***************************************************************************)
\* the entry of the forward table for the requested axis ax (ax itself when
\* the table has none)
ForwardOf(ax) == DictGet(sample_to_tiger_axis_map, Lower(ax), Lower(ax))

\* the entry of the backward table for the machine axis of ax
BackwardOf(ax) ==
    DictGet(tiger_to_sample_axis_map, Unsigned(ForwardOf(ax)), Unsigned(ForwardOf(ax)))

MachineLower(ax) == tigerbox.lower[Upper(Unsigned(ForwardOf(ax)))]

MachineUpper(ax) == tigerbox.upper[Upper(Unsigned(ForwardOf(ax)))]

Min2(a, b) == IF a <= b THEN a ELSE b

Max2(a, b) == IF a <= b THEN b ELSE a

\* C6: for every requested logical axis, get_travel_limits returns under that
\* axis's key the pair of the machine lower and upper limits remapped Backward
\* and sorted ascending, so first <= second whatever the sign of the mapping;
\* machine limits (-50, 50) on a negatively mapped axis give (-50, 50).
C6_TravelLimitOrdering ==
    (call.op = "get_travel_limits" /\ call.raised = "none") =>
        /\ DictKeys(call.ret) = {call.args[i] : i \in 1..Len(call.args)}
        /\ \A i \in 1..Len(call.args) :
              LET ax == call.args[i]
                  a == SignOf(BackwardOf(ax)) * MachineLower(ax)
                  b == SignOf(BackwardOf(ax)) * MachineUpper(ax)
                  r == DictAt(call.ret, ax)
              IN /\ r = <<Min2(a, b), Max2(a, b)>>
                 /\ r[1] <= r[2]
                 /\ (IsNegative(ForwardOf(ax)) /\ MachineLower(ax) = -50
                        /\ MachineUpper(ax) = 50) => r = <<-50, 50>>

\* the limits of a negatively mapped axis whose machine limits are (-10, 50)
\* have been read, together with those of another axis
C6_Witness ==
    /\ call.op = "get_travel_limits" /\ call.raised = "none"
    /\ Len(call.args) = 2
    /\ \E i \in 1..Len(call.args) :
          /\ IsNegative(ForwardOf(call.args[i]))
          /\ IsNegative(BackwardOf(call.args[i]))
          /\ MachineLower(call.args[i]) = -10
          /\ MachineUpper(call.args[i]) = 50
          /\ DictAt(call.ret, call.args[i]) = <<-50, 10>>

(***************************************************************************)
(* Waiting for a move.                                                     *)
(***************************************************************************)
\* the polling loop runs on the calling thread and keeps running; nothing
\* obliges the controller to finish a motion
SpecMoveLive == SpecMove /\ WF_vars(Poll)

\* the call of a move that raised nothing
MoveWent == Moved /\ call.raised = "none"

\* C11: a move with wait=true does not return before the controller has
\* reported the motion complete: the command is submitted before the first
\* is_moving(), and when the call returns the last is_moving() answer
\* obtained since the submission is false.
C11_BlockingWait ==
    /\ pc = "polling" =>
          /\ MoveWent /\ call.wait /\ ~call.returned
          /\ Len(tigerbox.log) = 1 /\ tigerbox.log[1].cmd = call.op
          /\ call.is_moving \in {"unasked", "true"}
    /\ (MoveWent /\ call.wait /\ call.returned) =>
          /\ pc = "idle"
          /\ call.is_moving = "false"
          /\ Len(tigerbox.log) = 1 /\ tigerbox.log[1].cmd = call.op

\* a waited move of a stage that had to travel has returned
C11_Witness ==
    /\ MoveWent /\ call.wait /\ call.returned
    /\ call.is_moving = "false"
    /\ \E a \in TigerAxes : tigerbox.pos[a] # 0

\* C12: a move with wait=false returns as soon as the command is submitted,
\* without any is_moving() query, also while the controller is still moving.
C12_NonBlockingMove ==
    (MoveWent /\ ~call.wait) =>
        /\ call.returned
        /\ pc = "idle"
        /\ call.is_moving = "unasked"
        /\ Len(tigerbox.log) = 1 /\ tigerbox.log[1].cmd = call.op

\* a move that was not waited for has returned and the stage is still moving
C12_Witness ==
    /\ MoveWent /\ ~call.wait /\ call.returned
    /\ tigerbox.moving
    /\ \E a \in TigerAxes : tigerbox.target[a] # tigerbox.pos[a]

\* C13: a move with wait=true returns if and only if the controller at some
\* time answers is_moving() == false: while the controller goes on moving
\* the call stays in its polling loop for ever (no timeout, no bounded
\* retry), and once the controller has stopped the call returns.
C13_NoTimeout ==
    /\ []((pc = "polling" /\ []tigerbox.moving) => [](pc = "polling"))
    /\ []((pc = "polling" /\ <>(~tigerbox.moving)) => <>(pc = "idle"))

\* the call has asked once, was told the stage is moving, and polls on
C13_Witness ==
    /\ pc = "polling" /\ call.is_moving = "true" /\ tigerbox.moving
    /\ MoveWent /\ call.wait /\ ~call.returned

(***************************************************************************)
(* The controller's scan and ring-buffer commands.                         *)
(***************************************************************************)
\* STEPS_PER_UM of the controller library
StepsPerUm == 10

\* the 1e3 of step_size_mm * 1e3 * STEPS_PER_UM
UmPerMm == 1000

\* the controller with no scan set up, not scanning, its ring buffers empty
TigerScanIdle ==
    [pos |-> TigerIdle.pos, target |-> TigerIdle.target,
     lower |-> TigerIdle.lower, upper |-> TigerIdle.upper,
     moving |-> FALSE, joystick |-> TigerIdle.joystick, log |-> << >>,
     scan |-> << >>, scanr |-> << >>, scanv |-> << >>, scanning |-> FALSE,
     ring |-> [a \in TigerAxes |-> << >>], ring_mode |-> << >>, ttl |-> << >>]

\* the axes a command names
NamedBy(c) ==
    IF c.cmd \in {"setup_scan", "reset_ring_buffer", "setup_ring_buffer"}
    THEN {c.axes[i] : i \in 1..Len(c.axes)}
    ELSE IF c.cmd \in {"queue_buffered_move", "set_axis_backlash"} THEN DictKeys(c.moves)
    ELSE {}

\* the controller refuses a command that names an axis it does not have
TigerRefuses(c) == ~TigerKnows(NamedBy(c))

\* the queue of axis a after the buffered moves of c
Queued(tb, moves, a) ==
    tb.ring[a] \o (IF MoveValueFor(moves, a) = {} THEN << >>
                   ELSE <<TheOne(MoveValueFor(moves, a))>>)

\* the effect of one accepted command on the controller
TigerDo(tb, c) ==
    LET logged == [tb EXCEPT !.log = Append(@, c)] IN
    CASE c.cmd = "stop_scan" -> [logged EXCEPT !.scanning = FALSE]
      [] c.cmd = "setup_scan" -> [logged EXCEPT !.scan = <<c>>]
      [] c.cmd = "scanr" -> [logged EXCEPT !.scanr = <<c>>]
      [] c.cmd = "scanv" -> [logged EXCEPT !.scanv = <<c>>]
      [] c.cmd = "start_scan" -> [logged EXCEPT !.scanning = TRUE]
      [] c.cmd = "reset_ring_buffer" ->
            [logged EXCEPT !.ring = [a \in TigerAxes |->
                                       IF a = Upper(c.axes[1]) THEN << >> ELSE tb.ring[a]]]
      [] c.cmd = "setup_ring_buffer" -> [logged EXCEPT !.ring_mode = <<c>>]
      [] c.cmd = "queue_buffered_move" ->
            [logged EXCEPT !.ring = [a \in TigerAxes |-> Queued(tb, c.moves, a)]]
      [] c.cmd = "set_ttl_pin_modes" -> [logged EXCEPT !.ttl = <<c>>]
      [] c.cmd = "set_axis_backlash" -> logged
      [] c.cmd = "disable_joystick_inputs" ->
            [logged EXCEPT !.joystick = [a \in TigerAxes |-> "NONE"]]
      [] c.cmd = "enable_joystick_inputs" -> [logged EXCEPT !.joystick = JoystickDefault]
      [] c.cmd = "bind_axis_to_joystick_input" ->
            [logged EXCEPT !.joystick = [a \in TigerAxes |->
                                           IF a \in DOMAIN c.mapping THEN c.mapping[a]
                                           ELSE tb.joystick[a]]]

\* the commands of one wrapper call, sent in order up to the first one the
\* controller refuses
RECURSIVE TigerRun(_, _)
TigerRun(tb, cmds) ==
    IF cmds = << >> THEN tb
    ELSE IF TigerRefuses(cmds[1]) \/ TigerFails(tb, cmds[1].cmd)
         THEN [tb EXCEPT !.log = Append(@, cmds[1])]
    ELSE TigerRun(TigerDo(tb, cmds[1]), Tail(cmds))

\* some command of the call was refused
Refused(cmds) == \E i \in 1..Len(cmds) : TigerRefuses(cmds[i])

\* the error that ends the commands of one wrapper call: that of the first
\* command the controller refuses or fails on
RECURSIVE RunError(_, _)
RunError(tb, cmds) ==
    IF cmds = << >> THEN "none"
    ELSE IF TigerRefuses(cmds[1]) THEN "AssertionError"
    ELSE IF TigerFails(tb, cmds[1].cmd) THEN "HardwareCommunicationError"
    ELSE RunError(tb, Tail(cmds))

(***************************************************************************)
(* Pose.setup_finite_tile_scan, start_finite_scan and                      *)
(* setup_ext_trigger_linear_move                                           *)
(***************************************************************************)
\* an axis identity that keeps the sign of the table entry
MachineScanAxis_Signed(t) == t

\* self.sample_to_tiger_axis_map[axis.lower()].lstrip("-")
MachineScanAxis(t) == LStripMinus(t)

\* a position sent as the caller gave it
MachinePosition_Unsigned(axis, position) == position

\* list(self._sample_to_tiger({axis: position}).items())[0][1]
MachinePosition(axis, position) ==
    Remap(<< <<axis, position>> >>, sample_to_tiger_axis_map)[1][2]

\* a setup that also starts the scan
ScanSetupCommands_ThenStart(fast, slow, fast_start, slow_start, slow_stop, a) ==
    << [cmd |-> "setup_scan", axes |-> <<fast, slow>>, pattern |-> "RASTER"],
       [cmd |-> "scanr", scan_start_mm |-> fast_start,
        pulse_interval_um |-> a.tile_interval_um, num_pixels |-> a.tile_count,
        retrace_speed_percent |-> 100],
       [cmd |-> "scanv", scan_start_mm |-> slow_start, scan_stop_mm |-> slow_stop,
        line_count |-> a.line_count],
       [cmd |-> "start_scan"] >>

\* the controller calls of setup_finite_tile_scan: setup_scan, scanr, scanv
ScanSetupCommands(fast, slow, fast_start, slow_start, slow_stop, a) ==
    << [cmd |-> "setup_scan", axes |-> <<fast, slow>>, pattern |-> "RASTER"],
       [cmd |-> "scanr", scan_start_mm |-> fast_start,
        pulse_interval_um |-> a.tile_interval_um, num_pixels |-> a.tile_count,
        retrace_speed_percent |-> 100],
       [cmd |-> "scanv", scan_start_mm |-> slow_start, scan_stop_mm |-> slow_stop,
        line_count |-> a.line_count] >>

\* self.setup_finite_tile_scan(**a): indexing the forward table
\* with an axis it does not hold raises KeyError before anything is sent
SetupFiniteTileScanOf(a) ==
    LET fresh == [tigerbox EXCEPT !.log = << >>]
        unmapped == \/ ~DictHas(sample_to_tiger_axis_map, Lower(a.fast_axis))
                    \/ ~DictHas(sample_to_tiger_axis_map, Lower(a.slow_axis))
        cmds == ScanSetupCommands(
                   MachineScanAxis(DictAt(sample_to_tiger_axis_map, Lower(a.fast_axis))),
                   MachineScanAxis(DictAt(sample_to_tiger_axis_map, Lower(a.slow_axis))),
                   MachinePosition(a.fast_axis, a.fast_axis_start_position),
                   MachinePosition(a.slow_axis, a.slow_axis_start_position),
                   MachinePosition(a.slow_axis, a.slow_axis_stop_position),
                   a)
    IN /\ pc = "idle"
       /\ tigerbox' = IF unmapped THEN fresh ELSE TigerRun(fresh, cmds)
       /\ call' = [op |-> "setup_finite_tile_scan",
                   raised |-> IF unmapped THEN "KeyError" ELSE RunError(tigerbox, cmds),
                   args |-> a]
       /\ UNCHANGED <<pc, kind, axis_map, sample_to_tiger_axis_map,
                      tiger_to_sample_axis_map, axes,
                   tiger_joystick_mapping, vector>>

SetupFiniteTileScan == SetupFiniteTileScanOf(vector.scan)

\* self.start_finite_scan()
StartFiniteScan ==
    /\ pc = "idle"
    /\ tigerbox' = TigerRun([tigerbox EXCEPT !.log = << >>], << [cmd |-> "start_scan"] >>)
    /\ call' = [op |-> "start_finite_scan",
                raised |-> RunError(tigerbox, << [cmd |-> "start_scan"] >>),
                args |-> << >>]
    /\ UNCHANGED <<pc, kind, axis_map, sample_to_tiger_axis_map,
                   tiger_to_sample_axis_map, axes,
                   tiger_joystick_mapping, vector>>

\* a ring-buffer setup that does not reset the buffer
RingBufferCommands_NoReset(hw_scan_axis, tiger_frame_move) ==
    << [cmd |-> "setup_ring_buffer", axes |-> <<hw_scan_axis>>, mode |-> "TTL"],
       [cmd |-> "queue_buffered_move", moves |-> tiger_frame_move],
       [cmd |-> "set_ttl_pin_modes", in0 |-> "MOVE_TO_NEXT_REL_POSITION",
        out0 |-> "PULSE_AFTER_MOVING", aux_io_mode |-> 0, aux_io_mask |-> 0,
        aux_io_state |-> 0] >>

\* a ring-buffer setup that resets the buffer after queueing the move
RingBufferCommands_ResetLast(hw_scan_axis, tiger_frame_move) ==
    << [cmd |-> "setup_ring_buffer", axes |-> <<hw_scan_axis>>, mode |-> "TTL"],
       [cmd |-> "queue_buffered_move", moves |-> tiger_frame_move],
       [cmd |-> "set_ttl_pin_modes", in0 |-> "MOVE_TO_NEXT_REL_POSITION",
        out0 |-> "PULSE_AFTER_MOVING", aux_io_mode |-> 0, aux_io_mask |-> 0,
        aux_io_state |-> 0],
       [cmd |-> "reset_ring_buffer", axes |-> <<Upper(hw_scan_axis)>>, wait |-> TRUE] >>

\* the controller calls of _setup_relative_ring_buffer_move
RingBufferCommands(hw_scan_axis, tiger_frame_move) ==
    << [cmd |-> "reset_ring_buffer", axes |-> <<Upper(hw_scan_axis)>>, wait |-> TRUE],
       [cmd |-> "setup_ring_buffer", axes |-> <<hw_scan_axis>>, mode |-> "TTL"],
       [cmd |-> "queue_buffered_move", moves |-> tiger_frame_move],
       [cmd |-> "set_ttl_pin_modes", in0 |-> "MOVE_TO_NEXT_REL_POSITION",
        out0 |-> "PULSE_AFTER_MOVING", aux_io_mode |-> 0, aux_io_mask |-> 0,
        aux_io_state |-> 0] >>

\* self.setup_ext_trigger_linear_move(axis, num_pts, step_size_mm), which
\* is self._setup_relative_ring_buffer_move(axis, step_size_mm)
SetupExtTriggerLinearMove(axis, num_pts, step_size_mm) ==
    LET step_size_steps == step_size_mm * UmPerMm * StepsPerUm
        tiger_frame_move == Remap(<< <<Lower(axis), step_size_steps>> >>,
                                  sample_to_tiger_axis_map)
        hw_scan_axis == tiger_frame_move[1][1]
        cmds == RingBufferCommands(hw_scan_axis, tiger_frame_move)
    IN /\ pc = "idle"
       /\ tigerbox' = TigerRun([tigerbox EXCEPT !.log = << >>], cmds)
       /\ call' = [op |-> "setup_ext_trigger_linear_move",
                   raised |-> RunError(tigerbox, cmds),
                   args |-> [axis |-> axis, num_pts |-> num_pts,
                             step_size_mm |-> step_size_mm],
                   found |-> IF TigerRefuses(cmds[1]) THEN << >>
                             ELSE tigerbox.ring[Upper(hw_scan_axis)]]
       /\ UNCHANGED <<pc, kind, axis_map, sample_to_tiger_axis_map,
                      tiger_to_sample_axis_map, axes,
                   tiger_joystick_mapping, vector>>

\* the linear moves the caller has at hand
SetupLinearMove ==
    \E i \in 1..Len(vector.ring) :
        SetupExtTriggerLinearMove(vector.ring[i].axis, vector.ring[i].num_pts,
                                  vector.ring[i].step_size_mm)

\* (fast axis, slow axis) of a tile scan, in either letter case
ScanAxisPairs ==
    { << <<"x">>, <<"y">> >>, << <<"Y">>, <<"z">> >>,
      << <<"y">>, <<"x">> >>, << <<"z">>, <<"Y">> >> }

ScanArgs ==
    { [fast_axis |-> p[1], slow_axis |-> p[2],
       fast_axis_start_position |-> fs,
       slow_axis_start_position |-> -1, slow_axis_stop_position |-> 2,
       tile_count |-> tc, tile_interval_um |-> ti, line_count |-> 2] :
         p \in ScanAxisPairs, fs \in {-1, 2}, tc \in {0, 1, 3}, ti \in {-1, 0, 2} }

\* two linear moves: on the same axis with two step sizes, or on two axes
RingArgs ==
    { << [axis |-> a1, num_pts |-> 2, step_size_mm |-> 1],
         [axis |-> a2, num_pts |-> 2, step_size_mm |-> s2] >> :
         a1 \in { <<"x">>, <<"Y">> }, a2 \in { <<"x">>, <<"q">> }, s2 \in {1, -2} }

InitScan ==
    /\ \E m \in SampleAxisMaps : Constructed(SomeAxisMap(m), "SamplePose")
    /\ vector \in [scan : ScanArgs, ring : RingArgs]
    /\ tigerbox = TigerScanIdle

NextScan == SetupFiniteTileScan \/ StartFiniteScan \/ SetupLinearMove

SpecScan == InitScan /\ [][NextScan]_vars

(***************************************************************************)
(* Vocabulary of the claims about the scan setup.                          *)
(***************************************************************************)
ScanSetUp == call.op = "setup_finite_tile_scan"

\* the names of the commands the controller received in this call, in order
CommandsSent == [i \in 1..Len(tigerbox.log) |-> tigerbox.log[i].cmd]

\* C14: every setup_finite_tile_scan call issues to the controller, in this
\* order, a stop of any scan in progress, the binding of the fast and slow
\* axes with the raster pattern, the fast-axis pulse train and the slow-axis
\* line sweep; none is skipped.
C14_SetupProtocolOrder ==
    (ScanSetUp /\ call.raised = "none") =>
        CommandsSent = <<"stop_scan", "setup_scan", "scanr", "scanv">>

\* C15: setup_finite_tile_scan binds the unsigned machine axes of the fast
\* and slow logical axes (no "-" in an axis identity), programs the fast
\* start, slow start and slow stop each multiplied by the sign of its own
\* axis's mapping, and passes tile_count, tile_interval_um and line_count
\* unchanged (for fast and slow axes that the forward table holds).
C15_SetupTranslation ==
    (ScanSetUp /\ call.raised # "KeyError") =>
        LET a == call.args
            bind == tigerbox.log[1]
            fastp == tigerbox.log[2]
            slowp == tigerbox.log[3]
        IN /\ call.raised = "none"
           /\ Len(tigerbox.log) = 3
           /\ bind.cmd = "setup_scan" /\ fastp.cmd = "scanr" /\ slowp.cmd = "scanv"
           /\ bind.axes = <<Unsigned(ForwardOf(a.fast_axis)), Unsigned(ForwardOf(a.slow_axis))>>
           /\ \A i \in 1..2 : ~HasMinus(bind.axes[i])
           /\ fastp.scan_start_mm
                 = SignOf(ForwardOf(a.fast_axis)) * a.fast_axis_start_position
           /\ slowp.scan_start_mm
                 = SignOf(ForwardOf(a.slow_axis)) * a.slow_axis_start_position
           /\ slowp.scan_stop_mm
                 = SignOf(ForwardOf(a.slow_axis)) * a.slow_axis_stop_position
           /\ fastp.num_pixels = a.tile_count
           /\ fastp.pulse_interval_um = a.tile_interval_um
           /\ slowp.line_count = a.line_count
           /\ tigerbox.scan = <<bind>> /\ tigerbox.scanr = <<fastp>>
           /\ tigerbox.scanv = <<slowp>>

\* a scan was set up whose slow axis is mapped with a "-" and whose fast
\* axis is not
C15_Witness ==
    /\ ScanSetUp /\ call.raised = "none"
    /\ IsNegative(ForwardOf(call.args.slow_axis))
    /\ ~IsNegative(ForwardOf(call.args.fast_axis))
    /\ tigerbox.scanv # << >>
    /\ tigerbox.scanv[1].scan_start_mm = 1 /\ tigerbox.scanv[1].scan_stop_mm = -2
    /\ tigerbox.scanr[1].scan_start_mm = 2

\* C16: setup_finite_tile_scan with tile_count = 0 or tile_interval_um <= 0
\* fails with an error and issues no programming command (setup_scan, scanr,
\* scanv) to the controller.
C16_RejectsInvalid ==
    (ScanSetUp /\ (call.args.tile_count = 0 \/ call.args.tile_interval_um <= 0)) =>
        /\ call.raised # "none"
        /\ \A i \in 1..Len(tigerbox.log) :
              tigerbox.log[i].cmd \notin {"setup_scan", "scanr", "scanv"}

SetupCalled ==
    call.op \in {"setup_finite_tile_scan", "setup_ext_trigger_linear_move"}

\* C17: in any sequence of wrapper calls start_scan is issued only by
\* start_finite_scan; setup_finite_tile_scan and
\* setup_ext_trigger_linear_move issue neither start_scan nor a move, and
\* leave the controller's scanning and motion as they were.
C17_SetupNeverStarts ==
    /\ [](\A i \in 1..Len(tigerbox.log) :
             /\ tigerbox.log[i].cmd = "start_scan" => call.op = "start_finite_scan"
             /\ SetupCalled
                   => tigerbox.log[i].cmd \notin {"start_scan", "move_absolute", "move_relative"})
    /\ [][/\ tigerbox'.scanning # tigerbox.scanning => call'.op = "start_finite_scan"
          /\ SetupCalled' => /\ tigerbox'.scanning = tigerbox.scanning
                             /\ tigerbox'.moving = tigerbox.moving
                             /\ tigerbox'.target = tigerbox.target]_vars

\* a tile scan and a linear move have been set up and nothing has started
C17_Witness ==
    /\ ScanSetUp /\ call.raised = "none"
    /\ tigerbox.scanv # << >>
    /\ \E a \in TigerAxes : tigerbox.ring[a] # << >>
    /\ ~tigerbox.scanning /\ ~tigerbox.moving

(***************************************************************************)
(* Vocabulary of the claim about the ring buffer.                          *)
(***************************************************************************)
LinearMoveSetUp == call.op = "setup_ext_trigger_linear_move" /\ call.raised = "none"

\* the machine axis of the linear move of this call, as the controller names it
RingAxis == Upper(Unsigned(ForwardOf(call.args.axis)))

\* the buffered move computed from the step size of this call
StepsOf(args) ==
    SignOf(ForwardOf(args.axis)) * args.step_size_mm * UmPerMm * StepsPerUm

\* C18: after setup_ext_trigger_linear_move on an axis, whatever was queued
\* for that machine axis before (the move of an earlier call with another
\* step size), the controller's buffered-move queue for the axis holds only
\* the move computed from this call's step size; and a call that repeats the
\* preceding call leaves the controller as that call left it.
C18_RingBufferIdempotent ==
    /\ [](LinearMoveSetUp => tigerbox.ring[RingAxis] = <<StepsOf(call.args)>>)
    /\ [][(LinearMoveSetUp /\ LinearMoveSetUp' /\ call'.args = call.args)
             => tigerbox' = tigerbox]_vars

\* the second call on an axis found the move of the first in the queue and
\* left only its own
C18_Witness ==
    /\ LinearMoveSetUp
    /\ call.found # << >>
    /\ call.found # <<StepsOf(call.args)>>
    /\ tigerbox.ring[RingAxis] = <<StepsOf(call.args)>>

\* a repeated call found its own move in the queue
C18_Repeated ==
    /\ LinearMoveSetUp
    /\ call.found = <<StepsOf(call.args)>>
    /\ tigerbox.ring[RingAxis] = <<StepsOf(call.args)>>

(***************************************************************************)
(* Pose.lock_external_user_input, Pose.unlock_external_user_input and the  *)
(* lock_external_user_input decorator of spim_base                         *)
(***************************************************************************)
\* an unlock that enables the inputs and binds nothing
UnlockCommands_EnableOnly(mapping) == << [cmd |-> "enable_joystick_inputs"] >>

\* the controller calls of unlock_external_user_input
UnlockCommands(mapping) ==
    << [cmd |-> "enable_joystick_inputs"],
       [cmd |-> "bind_axis_to_joystick_input", mapping |-> mapping] >>

\* the controller calls of lock_external_user_input after the binding is read
LockCommands == << [cmd |-> "disable_joystick_inputs"] >>

\* the controller after self.lock_external_user_input()
Locked(tb) == TigerRun([tb EXCEPT !.log = << >>], LockCommands)

\* the controller after self.unlock_external_user_input()
Unlocked(tb, mapping) == TigerRun([tb EXCEPT !.log = << >>], UnlockCommands(mapping))

\* some joystick input is bound to an axis
InputsEnabled(tb) == \E a \in TigerAxes : tb.joystick[a] # "NONE"

\* what a call remembers of the call before it
Before(c) ==
    [op |-> c.op,
     found |-> IF "found" \in DOMAIN c THEN c.found ELSE << >>]

\* the binding in effect before the first lock of the sequence of lock and
\* unlock calls that c belongs to (none when no lock was taken yet)
FirstFound(c) == IF "first" \in DOMAIN c THEN c.first ELSE << >>

\* self.lock_external_user_input()
LockExternalUserInput ==
    /\ pc = "idle"
    /\ tiger_joystick_mapping' = tigerbox.joystick
    /\ tigerbox' = Locked(tigerbox)
    /\ call' = [op |-> "lock_external_user_input", raised |-> "none",
                found |-> tigerbox.joystick, after |-> Before(call),
                first |-> IF FirstFound(call) = << >> THEN <<tigerbox.joystick>>
                          ELSE FirstFound(call)]
    /\ UNCHANGED <<pc, kind, axis_map, sample_to_tiger_axis_map,
                   tiger_to_sample_axis_map, axes, vector>>

\* self.unlock_external_user_input()
UnlockExternalUserInput ==
    /\ pc = "idle"
    /\ tigerbox' = Unlocked(tigerbox, tiger_joystick_mapping)
    /\ call' = [op |-> "unlock_external_user_input", raised |-> "none",
                after |-> Before(call), first |-> FirstFound(call)]
    /\ UNCHANGED <<pc, kind, axis_map, sample_to_tiger_axis_map,
                   tiger_to_sample_axis_map, axes, tiger_joystick_mapping, vector>>

\* a guard that unlocks only when the body returns
FinallyUnlocks_OnReturnOnly(body) == body = "returned"

\* try: ... finally: self.unlock_external_user_input()
FinallyUnlocks(body) == TRUE

\* a guard that returns nothing
Passed_Nothing(value) == << >>

\* return func(self, *args, **kwds)
Passed(value) == <<value>>

\* inner(self, ...): self.lock_external_user_input(), then the body starts
GuardEnter ==
    /\ pc = "idle"
    /\ tiger_joystick_mapping' = tigerbox.joystick
    /\ tigerbox' = Locked(tigerbox)
    /\ call' = [op |-> "inner", raised |-> "none", returned |-> FALSE,
                body |-> "running", value |-> << >>, ret |-> << >>,
                locks |-> 1, unlocks |-> 0, unlocked_after_body |-> FALSE]
    /\ pc' = "body"
    /\ UNCHANGED <<kind, axis_map, sample_to_tiger_axis_map,
                   tiger_to_sample_axis_map, axes, vector>>

\* the values a guarded function may return
BodyValues == {0, 1}

\* func(self, *args, **kwds) returns v
BodyReturns ==
    /\ pc = "body"
    /\ \E v \in BodyValues : call' = [call EXCEPT !.body = "returned", !.value = <<v>>]
    /\ pc' = "finally"
    /\ UNCHANGED <<kind, axis_map, sample_to_tiger_axis_map,
                   tiger_to_sample_axis_map, axes, tiger_joystick_mapping, vector,
                   tigerbox>>

\* func(self, *args, **kwds) raises
BodyRaises ==
    /\ pc = "body"
    /\ call' = [call EXCEPT !.body = "raised"]
    /\ pc' = "finally"
    /\ UNCHANGED <<kind, axis_map, sample_to_tiger_axis_map,
                   tiger_to_sample_axis_map, axes, tiger_joystick_mapping, vector,
                   tigerbox>>

\* the finally clause runs and inner returns or lets the exception through
GuardExit ==
    /\ pc = "finally"
    /\ tigerbox' = IF FinallyUnlocks(call.body)
                   THEN Unlocked(tigerbox, tiger_joystick_mapping) ELSE tigerbox
    /\ call' = [call EXCEPT
                  !.unlocks = IF FinallyUnlocks(call.body) THEN @ + 1 ELSE @,
                  !.unlocked_after_body = FinallyUnlocks(call.body),
                  !.returned = (call.body = "returned"),
                  !.ret = IF call.body = "returned" THEN Passed(call.value[1]) ELSE << >>,
                  !.raised = IF call.body = "raised" THEN "BodyError" ELSE "none"]
    /\ pc' = "idle"
    /\ UNCHANGED <<kind, axis_map, sample_to_tiger_axis_map,
                   tiger_to_sample_axis_map, axes, tiger_joystick_mapping, vector>>

\* the operator binds the joystick inputs the way the experiment needs
JoystickBindings ==
    { JoystickDefault,
      [a \in TigerAxes |->
          CASE a = <<"X">> -> "JOYSTICK_Y" [] a = <<"Y">> -> "JOYSTICK_X"
            [] OTHER -> "NONE"],
      [a \in TigerAxes |-> IF a = <<"Z">> THEN "JOYSTICK_X" ELSE "NONE"] }

InitLock ==
    /\ \E arg \in {SomeAxisMap(m) : m \in SampleAxisMaps \cup CameraAxisMaps} :
          LET f == PoseFields(arg) IN
          /\ pc = "idle"
          /\ kind = "Pose"
          /\ axis_map = arg
          /\ sample_to_tiger_axis_map = f.sample_to_tiger_axis_map
          /\ tiger_to_sample_axis_map = f.tiger_to_sample_axis_map
          /\ axes = f.axes
          /\ call = [op |-> "__init__", raised |-> f.raised]
    /\ vector = EmptyDict
    /\ \E b \in JoystickBindings :
          /\ tigerbox = [TigerIdle EXCEPT !.joystick = b]
          /\ tiger_joystick_mapping = b

NextLock == LockExternalUserInput \/ UnlockExternalUserInput \/ GuardEnter
               \/ BodyReturns \/ BodyRaises \/ GuardExit

SpecLock == InitLock /\ [][NextLock]_vars

(***************************************************************************)
(* Vocabulary of the claims about locking.                                 *)
(***************************************************************************)
\* the binding has some joystick input bound to an axis
SomeInputBound(binding) == \E a \in TigerAxes : binding[a] # "NONE"

JustLocked == call.op = "lock_external_user_input"

\* the last two calls were a lock, taken while inputs were enabled, and an
\* unlock
LockedThenUnlocked ==
    /\ call.op = "unlock_external_user_input"
    /\ call.after.op = "lock_external_user_input"
    /\ SomeInputBound(call.after.found)

\* C19: after lock_external_user_input followed by
\* unlock_external_user_input the joystick inputs are enabled and the
\* controller's binding is the one that was in effect when the lock was
\* taken, not the default that enabling alone installs; between the two
\* calls the joystick inputs are disabled.
C19_UnlockRestoresBinding ==
    /\ JustLocked => ~InputsEnabled(tigerbox)
    /\ LockedThenUnlocked =>
          /\ InputsEnabled(tigerbox)
          /\ tigerbox.joystick = call.after.found
          /\ CommandsSent = <<"enable_joystick_inputs", "bind_axis_to_joystick_input">>

\* a binding that is not the default one was locked away and is back
C19_Witness ==
    /\ LockedThenUnlocked
    /\ call.after.found # JoystickDefault
    /\ tigerbox.joystick = call.after.found

Guarded == call.op = "inner"

\* C20: for a function wrapped by the lock_external_user_input decorator the
\* lock is taken before the body runs and the unlock runs exactly once after
\* it on every exit path: when the body returns, its value is passed
\* through; when it raises, the exception goes on to the caller after the
\* unlock.
C20_ScopedGuard ==
    /\ pc = "body" =>
          /\ Guarded /\ call.locks = 1 /\ call.unlocks = 0
          /\ CommandsSent = <<"disable_joystick_inputs">>
          /\ ~InputsEnabled(tigerbox)
    /\ pc = "finally" =>
          /\ Guarded /\ call.locks = 1 /\ call.unlocks = 0
          /\ call.body \in {"returned", "raised"}
    /\ (Guarded /\ pc = "idle") =>
          /\ call.locks = 1 /\ call.unlocks = 1 /\ call.unlocked_after_body
          /\ CommandsSent = <<"enable_joystick_inputs", "bind_axis_to_joystick_input">>
          /\ call.body = "returned" =>
                (call.returned /\ call.raised = "none" /\ call.ret = call.value)
          /\ call.body = "raised" =>
                (~call.returned /\ call.raised = "BodyError" /\ call.ret = << >>)

\* a guarded function raised and the inputs were unlocked after it
C20_Witness ==
    /\ Guarded /\ pc = "idle"
    /\ call.body = "raised" /\ call.raised = "BodyError"
    /\ call.unlocks = 1
    /\ InputsEnabled(tigerbox)

(***************************************************************************)
(* Axes the controller does not have.                                      *)
(***************************************************************************)
\* the stage wrappers with their moves and with the travel-limit query
NextAxes == NextMove \/ GetTravelLimits

SpecAxes == InitMove /\ [][NextAxes]_vars

\* the call of a move whose values are numbers, or of a travel-limit query
NamesAxes ==
    \/ Moved /\ call.raised # "TypeError"
    \/ call.op = "get_travel_limits"

\* the names the caller gave to the wrapper's axis-taking operation
NamesGiven ==
    IF call.op = "get_travel_limits" THEN {call.args[i] : i \in 1..Len(call.args)}
    ELSE {call.args[i][1] : i \in {j \in 1..Len(call.args) : ~IsNone(call.args[j][2])}}

\* the names given that are in neither table entry nor controller axis: the
\* forward table has no entry for them and the controller has no such axis
UnknownGiven ==
    {n \in NamesGiven : /\ ~DictHas(sample_to_tiger_axis_map, Lower(n))
                        /\ Upper(n) \notin TigerAxes}

\* the axis names the controller was handed in this call
HandedToController ==
    UNION {NamedBy(tigerbox.log[i]) \cup
             (IF tigerbox.log[i].cmd \in {"move_absolute", "move_relative"}
              THEN DictKeys(tigerbox.log[i].axes) ELSE {})
           : i \in 1..Len(tigerbox.log)}

FaultCommands ==
    {"move_absolute", "move_relative", "is_moving", "get_position",
     "get_lower_travel_limit", "get_upper_travel_limit", "setup_scan", "scanr",
     "scanv", "start_scan", "reset_ring_buffer", "setup_ring_buffer",
     "queue_buffered_move", "set_ttl_pin_modes"}

\* the idle controller whose transport fails on the command f
TigerFaulty(f) ==
    [pos |-> TigerScanIdle.pos, target |-> TigerScanIdle.target,
     lower |-> TigerScanIdle.lower, upper |-> TigerScanIdle.upper,
     moving |-> FALSE, joystick |-> TigerScanIdle.joystick, log |-> << >>,
     scan |-> << >>, scanr |-> << >>, scanv |-> << >>, scanning |-> FALSE,
     ring |-> TigerScanIdle.ring, ring_mode |-> << >>, ttl |-> << >>,
     fault |-> f]

\* the arguments of the moves: x and z given, y left out
FaultArgs == { << << <<"x">>, <<2>> >>, << <<"y">>, None >>, << <<"z">>, <<-1>> >> >> }

\* the tile scan the caller sets up
FaultScan ==
    [fast_axis |-> <<"x">>, slow_axis |-> <<"Y">>,
     fast_axis_start_position |-> -1, slow_axis_start_position |-> -1,
     slow_axis_stop_position |-> 2, tile_count |-> 3, tile_interval_um |-> 2,
     line_count |-> 2]

InitFault ==
    /\ Constructed(SomeAxisMap(StageMap(1, 2, FALSE, 3)), "SamplePose")
    /\ vector \in FaultArgs
    /\ \E f \in FaultCommands \cup {"none"} : tigerbox = TigerFaulty(f)

SetupScanFault == SetupFiniteTileScanOf(FaultScan)

SetupLinearMoveFault == \E step \in {1, -2} : SetupExtTriggerLinearMove(<<"y">>, 2, step)

NextFault == MoveAbsolute \/ MoveRelative \/ Poll \/ Arrive \/ GetPosition
                \/ GetTravelLimits \/ SetupScanFault \/ StartFiniteScan
                \/ SetupLinearMoveFault

SpecFault == InitFault /\ [][NextFault]_vars

\* the controller calls an operation makes when nothing fails, in order (the
\* polls of a waited move come after them)
ExpectedCommands ==
    CASE call.op \in {"move_absolute", "move_relative", "get_position",
                      "zero_in_place", "start_finite_scan"} ->
             << IF call.op = "start_finite_scan" THEN "start_scan" ELSE call.op >>
      [] call.op = "setup_finite_tile_scan" -> <<"setup_scan", "scanr", "scanv">>
      [] call.op = "setup_ext_trigger_linear_move" ->
             <<"reset_ring_buffer", "setup_ring_buffer", "queue_buffered_move",
               "set_ttl_pin_modes">>
      [] OTHER -> << >>

\* the operation was called and the wrapper and the controller accepted its
\* arguments
Accepted ==
    /\ call.op # "__init__"
    /\ call.raised \notin {"TypeError", "KeyError", "AssertionError"}

\* the transport fails on a command the operation makes
FaultHit ==
    \/ \E i \in 1..Len(ExpectedCommands) : ExpectedCommands[i] = tigerbox.fault
    \/ /\ call.op = "get_travel_limits"
       /\ call.args # << >>
       /\ tigerbox.fault \in {"get_lower_travel_limit", "get_upper_travel_limit"}

LinearMoveCalled == call.op = "setup_ext_trigger_linear_move"

\* the four controller calls of the external-trigger setup, in order
RingProtocol ==
    <<"reset_ring_buffer", "setup_ring_buffer", "queue_buffered_move",
      "set_ttl_pin_modes">>

\* C23: every setup_ext_trigger_linear_move call sends the controller, in
\* this order and nothing else, the reset of the buffered moves of the target
\* machine axis, the enabling of the ring buffer on that one axis in TTL mode,
\* one buffered move on that same axis, and the pin modes 'trigger moves to
\* the next relative position, pulse after moving'; a call the controller
\* refuses stops inside that sequence.
C23_RingSetupProtocolOrder ==
    LinearMoveCalled =>
       /\ CommandsSent = SubSeq(RingProtocol, 1, Len(CommandsSent))
       /\ call.raised = "none" =>
             /\ CommandsSent = RingProtocol
             /\ tigerbox.log[1].axes = <<RingAxis>>
             /\ Len(tigerbox.log[2].axes) = 1
             /\ Upper(tigerbox.log[2].axes[1]) = RingAxis
             /\ tigerbox.log[2].mode = "TTL"
             /\ Len(tigerbox.log[3].moves) = 1
             /\ Upper(tigerbox.log[3].moves[1][1]) = RingAxis
             /\ tigerbox.log[4].in0 = "MOVE_TO_NEXT_REL_POSITION"
             /\ tigerbox.log[4].out0 = "PULSE_AFTER_MOVING"

\* a linear move set up on a mapped axis sent the four commands
C23_Witness ==
    /\ LinearMoveSetUp
    /\ CommandsSent = RingProtocol
    /\ Upper(call.args.axis) # RingAxis

\* the command that queued the buffered move of this call
QueuedMove == tigerbox.log[3].moves

\* the requested step in controller steps
RequestedSteps == call.args.step_size_mm * UmPerMm * StepsPerUm

\* the forward table maps the requested axis with a minus sign
NegativelyMapped == IsNegative(ForwardOf(call.args.axis))

\* C24: the one step queued by setup_ext_trigger_linear_move is on the
\* unsigned machine axis of the requested logical axis, and is the requested
\* step in controller steps times the sign of the axis's mapping: negated for
\* a negatively mapped axis, as requested for a positively mapped or an
\* unmapped axis.
C24_SignedTriggerStep ==
    (LinearMoveCalled /\ Len(tigerbox.log) >= 3) =>
       /\ Len(QueuedMove) = 1
       /\ QueuedMove[1][1] = Unsigned(ForwardOf(call.args.axis))
       /\ QueuedMove[1][2] = StepsOf(call.args)
       /\ NegativelyMapped => QueuedMove[1][2] = -RequestedSteps
       /\ ~NegativelyMapped => QueuedMove[1][2] = RequestedSteps
       /\ call.raised = "none" => tigerbox.ring[RingAxis] = <<QueuedMove[1][2]>>

\* a positive step on a negatively mapped axis queued a negative step
C24_Witness ==
    /\ LinearMoveSetUp
    /\ NegativelyMapped
    /\ call.args.step_size_mm > 0
    /\ QueuedMove[1][2] < 0

\* an unmapped axis the controller has kept the sign of the request
C24_Unmapped ==
    /\ LinearMoveSetUp
    /\ ~DictHas(sample_to_tiger_axis_map, Lower(call.args.axis))
    /\ QueuedMove[1][2] = RequestedSteps

(***************************************************************************)
(* Every operation of a constructed wrapper.                               *)
(***************************************************************************)
\* the entries of the keyword arguments d that are given, with their numbers
Given(d) == Numbers(SelectSeq(d, LAMBDA e : ~IsNone(e[2])))

\* self.set_axis_backlash(**axes)
SetAxisBacklash ==
    LET machine_axes == Remap(Given(vector), sample_to_tiger_axis_map)
        cmds == << [cmd |-> "set_axis_backlash", moves |-> machine_axes] >>
    IN /\ pc = "idle"
       /\ tigerbox' = TigerRun([tigerbox EXCEPT !.log = << >>], cmds)
       /\ call' = [op |-> "set_axis_backlash", raised |-> RunError(tigerbox, cmds),
                   args |-> Given(vector)]
       /\ UNCHANGED <<pc, kind, axis_map, sample_to_tiger_axis_map,
                      tiger_to_sample_axis_map, axes, tiger_joystick_mapping, vector>>

\* self._sample_to_tiger and self._tiger_to_sample on the given arguments
RemapGiven ==
    \/ SampleToTiger(Given(vector))
    \/ TigerToSample(Given(vector), FALSE, Given(vector))

\* the keyword arguments at hand
OpsArgs(k) ==
    IF k = "SamplePose"
    THEN { << << <<"x">>, <<2>> >>, << <<"y">>, None >>, << <<"z">>, <<-1>> >> >> }
    ELSE { << << <<"c">>, <<2>> >> >> }

InitOps ==
    /\ \/ Constructed(SomeAxisMap(StageMap(1, 2, TRUE, 3)), "SamplePose")
       \/ Constructed(SomeAxisMap(<< << <<"c">>, <<"-", "n">> >> >>), "CameraPose")
    /\ vector \in OpsArgs(kind)
    /\ tigerbox = TigerScanIdle

NextOps ==
    \/ NextMove
    \/ GetTravelLimits
    \/ SetAxisBacklash
    \/ RemapGiven
    \/ SetupScanFault
    \/ StartFiniteScan
    \/ SetupLinearMoveFault
    \/ LockExternalUserInput
    \/ UnlockExternalUserInput

SpecOps == InitOps /\ [][NextOps]_vars

\* C25: after construction no operation of the wrapper (remap, moves,
\* get_position, get_travel_limits, set_axis_backlash, scan and trigger setup,
\* lock, unlock, zero_in_place) changes the forward table, the inverse table
\* or the list of owned axes, and a remap leaves its input dict as it was.
C25_ImmutableMapping ==
    [][/\ sample_to_tiger_axis_map' = sample_to_tiger_axis_map
       /\ tiger_to_sample_axis_map' = tiger_to_sample_axis_map
       /\ axes' = axes
       /\ Remapped' => (vector' = vector /\ call'.arg = Given(vector))]_vars

\* the tables are those of the constructor after a lock, an unlock and a
\* backlash setting that went through the forward table
C25_Witness ==
    /\ call.op = "set_axis_backlash"
    /\ call.raised = "none"
    /\ tigerbox.log[1].moves # call.args
    /\ ~InputsEnabled(tigerbox)
    /\ sample_to_tiger_axis_map = PoseFields(axis_map).sample_to_tiger_axis_map
    /\ tiger_to_sample_axis_map = PoseFields(axis_map).tiger_to_sample_axis_map
    /\ axes = PoseFields(axis_map).axes

(***************************************************************************)
(* Vocabulary of the claim about the owned axes.                           *)
(***************************************************************************)
\* the machine axes of the forward table, as the controller names them
ForwardMachineAxes ==
    {Upper(Unsigned(sample_to_tiger_axis_map[i][2])) :
        i \in 1..Len(sample_to_tiger_axis_map)}

\* C26: for every axis map, those with '-' prefixed machine names included,
\* every name of the owned-axes list is an upper-cased machine axis name
\* without a leading '-', and the list holds exactly the machine axes of the
\* forward table.
C26_OwnedAxesUnsigned ==
    (Built /\ call.raised = "none") =>
       /\ \A i \in 1..Len(axes) : ~HasMinus(axes[i]) /\ axes[i] = Upper(axes[i])
       /\ {axes[i] : i \in 1..Len(axes)} = ForwardMachineAxes

(***************************************************************************)
(* Vocabulary of the claim about sequences of lock and unlock.             *)
(***************************************************************************)
\* the last call was an unlock that ends a sequence with a lock in it
UnlockedAfterLocks ==
    /\ call.op = "unlock_external_user_input"
    /\ FirstFound(call) # << >>

\* C27: after any sequence of lock_external_user_input and
\* unlock_external_user_input calls that ends with an unlock, two locks in a
\* row included, the controller's joystick binding is the one in effect
\* before the first lock of the sequence; and a lock taken while the inputs
\* are disabled by an earlier lock leaves the saved binding as it is.
C27_LockUnlockAnySequence ==
    /\ UnlockedAfterLocks => tigerbox.joystick = call.first[1]
    /\ (JustLocked /\ call.after.op = "lock_external_user_input") =>
          tiger_joystick_mapping = call.after.found

\* lock, lock, unlock: the binding is the disabled one and not the one found
\* by the first lock
C27_DoubleLock ==
    /\ UnlockedAfterLocks
    /\ call.after.op = "lock_external_user_input"
    /\ ~InputsEnabled(tigerbox)
    /\ SomeInputBound(call.first[1])

(***************************************************************************)
(* Vocabulary of the claim about the axes of the scan setup.               *)
(***************************************************************************)
\* the key of self._sample_to_tiger({ax: 0}): the machine axis the forward
\* remap sends positions of the logical axis ax to
RemapAxis(ax) == Remap(<< <<ax, 0>> >>, sample_to_tiger_axis_map)[1][1]

\* C28: for every logical axis name, mapped or not and in any letter case,
\* the machine axis setup_finite_tile_scan binds is the one the forward remap
\* sends the positions of that axis to; an axis absent from the axis map
\* passes through under its own name and does not make the call fail.
C28_ScanResolvesLikeRemap ==
    ScanSetUp =>
       /\ call.raised # "KeyError"
       /\ tigerbox.log # << >>
       /\ tigerbox.log[1].cmd = "setup_scan"
       /\ tigerbox.log[1].axes
             = <<RemapAxis(call.args.fast_axis), RemapAxis(call.args.slow_axis)>>

\* a scan set up on mapped axes bound the axes of the forward remap
C28_Mapped ==
    /\ ScanSetUp
    /\ call.raised = "none"
    /\ tigerbox.log[1].axes
          = <<RemapAxis(call.args.fast_axis), RemapAxis(call.args.slow_axis)>>
    /\ Upper(call.args.fast_axis) # Upper(RemapAxis(call.args.fast_axis))

(***************************************************************************)
(* Two wrappers on one controller: this SamplePose and a CameraPose that   *)
(* nothing serializes with it.                                             *)
(***************************************************************************)
\* the axis map of the other wrapper
OtherAxisMap == << << <<"c">>, <<"N">> >> >>

\* the machine axes of the other wrapper
OtherAxes == {Upper(Unsigned(OtherAxisMap[i][2])) : i \in 1..Len(OtherAxisMap)}

\* the machine axes of this wrapper
OwnAxes == {Upper(Unsigned(sample_to_tiger_axis_map[i][2])) :
               i \in 1..Len(sample_to_tiger_axis_map)}

\* CameraPose(tigerbox, OtherAxisMap).move_absolute(c=v, wait=False), at any
\* moment of this wrapper's calls; the log is that of this wrapper's call
OtherMove ==
    \E v \in {-1, 2} :
       /\ v # tigerbox.target[<<"N">>]
       /\ tigerbox' = [TigerMove(tigerbox, "move_absolute",
                                 Remap(<< << <<"c">>, v >> >>,
                                       SanitizeAxisMap(OtherAxisMap)), FALSE)
                          EXCEPT !.log = tigerbox.log]
       /\ UNCHANGED <<pc, kind, axis_map, sample_to_tiger_axis_map,
                      tiger_to_sample_axis_map, axes, tiger_joystick_mapping,
                      vector, call>>

\* one axis of the controller reaches its target
ArriveAxis ==
    \E a \in InMotion(tigerbox) :
       /\ tigerbox' = TigerArriveAxis(tigerbox, a)
       /\ UNCHANGED <<pc, kind, axis_map, sample_to_tiger_axis_map,
                      tiger_to_sample_axis_map, axes, tiger_joystick_mapping,
                      vector, call>>

\* a motion to the place where the axes already are is over
Settle == InMotion(tigerbox) = {} /\ Arrive

InitShared ==
    /\ Constructed(SomeAxisMap(StageMap(1, 2, FALSE, 3)), "SamplePose")
    /\ vector \in SampleArgs
    /\ tigerbox = TigerIdle

NextShared == MoveAbsolute \/ MoveRelative \/ Poll \/ OtherMove \/ ArriveAxis \/ Settle

SpecShared == InitShared /\ [][NextShared]_vars

\* C29: with two wrappers on one controller and nothing serializing them, a
\* wait=true move of this wrapper returns only when no axis of the whole
\* controller is moving: while an axis of the other wrapper is on its way the
\* call stays in its polling loop, its own axes having arrived or not.
C29_ControllerWideWait ==
    /\ [][(pc = "polling" /\ InMotion(tigerbox) # {}) => pc' = "polling"]_vars
    /\ [][(pc = "polling" /\ pc' = "idle") =>
             (~tigerbox.moving /\ InMotion(tigerbox) = {} /\ call'.is_moving = "false")]_vars
    /\ [](InMotion(tigerbox) # {} => tigerbox.moving)

\* the call is still polling: its own axes have arrived where it sent them,
\* and an axis of the other wrapper is on its way
C29_Witness ==
    /\ pc = "polling"
    /\ call.is_moving = "true"
    /\ InMotion(tigerbox) # {}
    /\ InMotion(tigerbox) \subseteq OtherAxes
    /\ \E a \in OwnAxes : tigerbox.pos[a] # 0

(***************************************************************************)
(* The transfer processes: DataTransfer.run (processes/data_transfer.py),  *)
(* TiffTransfer.run (file_transfer.py) and TiffTransfer.run                *)
(* (tiff_transfer.py).  A transfer has no wrapper: kind is the class (and  *)
(* the os.name it runs under), vector is what is on disk at self.source    *)
(* and at self.dest, call is the run and pc its position.                  *)
(***************************************************************************)
\* the number of files of a source directory
MaxFiles == 2

TransferKinds ==
    {"DataTransfer.nt", "DataTransfer.posix", "file_transfer.TiffTransfer",
     "tiff_transfer.TiffTransfer"}

\* what self.source may be: nothing, one file, or a directory of files
Sources ==
    {[is |-> "absent", files |-> {}], [is |-> "file", files |-> {0}]}
       \cup {[is |-> "dir", files |-> S] : S \in SUBSET (1..MaxFiles)}

\* the test that opens run: self.source.exists(), isfile() or isdir(), and
\* isfile() alone
SourceFound(k, src) ==
    IF k = "tiff_transfer.TiffTransfer" THEN src.is = "file" ELSE src.is # "absent"

\* a copy that fails raises: shutil.copytree, shutil.copy and shutil.copy2
\* do; the exit status of xcopy is not looked at by subprocess.run(...)
\* without check nor after the cmd.poll() loop
CopyRaises(k) == k \in {"DataTransfer.posix", "tiff_transfer.TiffTransfer"}

InitTransfer ==
    /\ pc = "start"
    /\ kind \in TransferKinds
    /\ axis_map = NoAxisMap
    /\ sample_to_tiger_axis_map = EmptyDict
    /\ tiger_to_sample_axis_map = EmptyDict
    /\ axes = << >>
    /\ tiger_joystick_mapping = << >>
    /\ tigerbox = TigerIdle
    /\ \E src \in Sources :
          /\ vector = [source |-> src, dest |-> {}]
          /\ call = [op |-> "run", raised |-> "none", copy |-> "none",
                     removed |-> FALSE, was |-> src]

\* if not self.source.exists(): raise FileNotFoundError(...)
RunChecks ==
    /\ pc = "start"
    /\ pc' = IF SourceFound(kind, vector.source) THEN "copying" ELSE "done"
    /\ call' = [call EXCEPT !.raised = IF SourceFound(kind, vector.source) THEN "none"
                                       ELSE "FileNotFoundError"]
    /\ UNCHANGED <<kind, axis_map, sample_to_tiger_axis_map, tiger_to_sample_axis_map,
                   axes, tiger_joystick_mapping, vector, tigerbox>>

\* the copy (xcopy, shutil.copytree, shutil.copy, shutil.copy2) writes one
\* more file of the source to the destination
CopyFile ==
    /\ pc = "copying"
    /\ \E f \in vector.source.files \ vector.dest :
          vector' = [vector EXCEPT !.dest = @ \cup {f}]
    /\ UNCHANGED <<pc, kind, axis_map, sample_to_tiger_axis_map,
                   tiger_to_sample_axis_map, axes, tiger_joystick_mapping, call,
                   tigerbox>>

\* the copy ends with every file written
CopyFinishes ==
    /\ pc = "copying"
    /\ vector.source.files \subseteq vector.dest
    /\ call' = [call EXCEPT !.copy = "ok"]
    /\ pc' = "deleting"
    /\ UNCHANGED <<kind, axis_map, sample_to_tiger_axis_map, tiger_to_sample_axis_map,
                   axes, tiger_joystick_mapping, vector, tigerbox>>

\* the copy ends before every file is written (destination full or out of
\* reach): the shutil functions raise, xcopy exits with a non-zero status
CopyFails ==
    /\ pc = "copying"
    /\ vector.source.files \ vector.dest # {}
    /\ call' = [call EXCEPT !.copy = "failed",
                            !.raised = IF CopyRaises(kind) THEN "OSError" ELSE "none"]
    /\ pc' = IF CopyRaises(kind) THEN "done" ELSE "deleting"
    /\ UNCHANGED <<kind, axis_map, sample_to_tiger_axis_map, tiger_to_sample_axis_map,
                   axes, tiger_joystick_mapping, vector, tigerbox>>

\* shutil.rmtree(self.source) if os.path.isdir(self.source)
\* else os.remove(self.source)
RemoveSource ==
    /\ pc = "deleting"
    /\ vector' = [vector EXCEPT !.source = [is |-> "absent", files |-> {}]]
    /\ call' = [call EXCEPT !.removed = TRUE]
    /\ pc' = "done"
    /\ UNCHANGED <<kind, axis_map, sample_to_tiger_axis_map, tiger_to_sample_axis_map,
                   axes, tiger_joystick_mapping, tigerbox>>

NextTransfer == RunChecks \/ CopyFile \/ CopyFinishes \/ CopyFails \/ RemoveSource

SpecTransfer == InitTransfer /\ [][NextTransfer]_vars

\* every file the source had is at the destination
CompletelyAtDest == call.was.files \subseteq vector.dest

\* C30: in every run of a transfer process the source is removed only after
\* the copy has finished successfully; when the copy fails the source is
\* left in place; when the source does not exist the run raises
\* FileNotFoundError and copies and removes nothing; at every moment the
\* data is at the source or completely at the destination.
C30_DeleteOnlyAfterCopy ==
    /\ call.removed => (call.copy = "ok" /\ CompletelyAtDest)
    /\ (pc = "done" /\ call.copy = "failed") => vector.source = call.was
    /\ (pc # "start" /\ call.was.is = "absent") =>
          /\ call.raised = "FileNotFoundError"
          /\ vector.dest = {}
          /\ ~call.removed
    /\ vector.source = call.was \/ CompletelyAtDest

\* a run whose copy succeeded removed the source with everything at the
\* destination
C30_CopiedThenRemoved ==
    /\ pc = "done"
    /\ call.removed
    /\ call.copy = "ok"
    /\ call.was.is = "dir" /\ call.was.files # {}
    /\ CompletelyAtDest

====
